---------------------------- MODULE Spec2Model ----------------------------
(***************************************************************************)
(* A model of the Tally -> Supabase synchronisation code.                  *)
(*                                                                         *)
(*  - SupabaseManager (src/supabase_manager.py): sync_tally_data and the   *)
(*    schema check, clear and batched insert it calls, one HTTP request    *)
(*    per step, against a Supabase REST endpoint whose answers are chosen  *)
(*    nondeterministically.                                                *)
(*  - TallySupabaseSync.sync_data_to_supabase (src/tally_supabase_sync.py) *)
(*    which calls sync_tally_data once per entity type.                    *)
(*  - the XML ingestion of src/tally_http_client.py and                    *)
(*    src/simple_tally_api.py: clean_xml_response, safe_parse_xml,         *)
(*    send_request and the get_* extraction calls.                         *)
(*  - TallyConnection and TallyMetadataExtractor                           *)
(*    (src/tally_metadata_extractor.py): the socket connection and the     *)
(*    cache of the get_* calls.                                            *)
(*  - SupabaseConfigPage (src/supabase_config_page.py): its buttons and    *)
(*    worker threads.                                                      *)
(*  - main of src/extract_voucher_entries_by_voucher.py, and sync runs     *)
(*    that are repeated, with sync_log.json.                               *)
(***************************************************************************)
EXTENDS Integers, Sequences, FiniteSets, TLC

VARIABLES
    \* ---- the Supabase endpoint
    tables,          \* table name -> [exists, covers, rows]
    lastStatus,      \* status code of the most recent answer (NoResponse: none)
    \* ---- SupabaseManager.sync_tally_data
    mode,            \* "manager": sync_tally_data called directly; "sync": via sync_data_to_supabase
    pc,              \* position in the code
    tally_data,      \* the dict given to sync_tally_data, as a sequence of [table, data]
    idx,             \* position of the for loop of sync_tally_data in tally_data
    success,         \* the local 'success' of sync_tally_data
    offset,          \* the loop variable i of insert_data
    existing_tables, \* the result of get_existing_tables
    result,          \* the return value of the entry point ("none" while running)
    trace,           \* the HTTP requests sent and the values returned, in order
    \* ---- TallySupabaseSync.sync_data_to_supabase
    mapIdx,          \* position of the for loop over mapping.items()
    sync_results,    \* tally_type -> status
    sync_success,    \* the local 'success' of sync_data_to_supabase
    sync_log,        \* the entries of sync_log.json
    extracted,       \* tally_type -> the number of records its fetch gave (-1: not fetched)
    \* ---- TallyHTTPClient: one extraction call
    called,          \* the extraction call made ("none" before it)
    call_pc,         \* position in the code of the call
    response,        \* what the request to Tally gave: [raises, text]
    xml_steps,       \* xml_text after each statement of clean_xml_response
    parser_calls,    \* the texts given to ET.fromstring, in order
    root,            \* the element safe_parse_xml returned
    raised,          \* the exception propagating ("none": none)
    log,             \* the records written with logger.error
    returned,        \* the list the call returned
    \* ---- one call of another function of the repository
    invoked,         \* the function called and its arguments ("none" before the call)
    step,            \* position in the code of the call
    sent,            \* the HTTP requests the call has sent, in order
    outcome,         \* what the call returned or raised
    \* ---- TallyConnection and TallyMetadataExtractor
    socket,          \* self.socket: "None", or the state of the socket object
    connected,       \* self.connected
    cache,           \* self.cache: cache key -> the list stored
    cache_timestamp, \* self.cache_timestamp: cache key -> the time of the store
    clock,           \* time.time(), in seconds
    conn_log,        \* the operations on the connection so far, in order
    last_call,       \* the most recent get_* call and what it did
    stores,          \* every <<key, time>> at which _update_cache stored an entry
    \* ---- SupabaseConfigPage
    buttons,         \* button -> isEnabled()
    running,         \* thread class -> the number of its threads that are running
    structure_data,  \* self.structure_data ("None" before an analysis succeeded)
    \* ---- more than one run
    runs,            \* the runs that ended before the current one: [result, tables]
    fair,            \* whether Supabase accepts every request of the current run
    log_file         \* sync_log.json: "absent", "json" or "unreadable"

syncVars == <<tables, lastStatus, mode, pc, tally_data, idx, success, offset,
              existing_tables, result, trace, mapIdx, sync_results,
              sync_success, sync_log, extracted>>

xmlVars == <<called, call_pc, response, xml_steps, parser_calls, root, raised, log,
             returned>>

libVars == <<invoked, step, sent, outcome>>

extractorVars == <<socket, connected, cache, cache_timestamp, clock, conn_log,
                   last_call, stores>>

pageVars == <<buttons, running, structure_data>>

runVars == <<runs, fair, log_file>>

moreVars == <<extractorVars, pageVars, runVars>>

vars == <<syncVars, xmlVars, libVars, moreVars>>

-----------------------------------------------------------------------------
(* Bounds and program constants *)

\* insert_data: batch_size = 100
batch_size == 100

\* the largest number of batches a record list of the model needs
MaxBatches == 2

\* the status stored in lastStatus when requests.* raised instead of answering
NoResponse == 0

Min(a, b) == IF a < b THEN a ELSE b

Range(s) == {s[k] : k \in 1..Len(s)}

\* get_existing_tables: the fixed list of table names it probes
common_tables ==
    <<"tally_companies", "tally_divisions", "tally_ledgers", "tally_vouchers",
      "tally_voucher_entries", "companies", "divisions", "ledgers", "vouchers",
      "voucher_entries">>

\* create_table_mapping: the table of an entity type
table_of(tally_type) == "tally_" \o tally_type

\* the mapping given to sync_data_to_supabase: two of the entity types of
\* create_table_mapping, in the order it fills the dict
mapping == <<"companies", "ledgers">>

\* the tables of a direct call of sync_tally_data (test_data_import.py): one the
\* probe list of get_existing_tables names and one it does not
manager_tables == <<"tally_companies", "tally_groups">>

Tables == Range(common_tables) \cup Range(manager_tables)

\* record counts: none, one, and the counts around each batch boundary
DataSizes ==
    {0, 1} \cup {k * batch_size : k \in 1..MaxBatches}
           \cup {k * batch_size + 1 : k \in 1..(MaxBatches - 1)}

\* a record list of n records; record k of the input is the number k
Records(n) == [k \in 1..n |-> k]

\* the rows a populated table holds before the run (0 is no record of the input)
OldRows == <<0>>

-----------------------------------------------------------------------------
(* The Supabase REST endpoint *)

\* what a table can be before the run: absent; present and empty; present with
\* a row whose columns cover the record fields; present with a row whose columns
\* do not
TableKinds ==
    { [exists |-> FALSE, covers |-> FALSE, rows |-> <<>>],
      [exists |-> TRUE,  covers |-> TRUE,  rows |-> <<>>],
      [exists |-> TRUE,  covers |-> TRUE,  rows |-> OldRows],
      [exists |-> TRUE,  covers |-> FALSE, rows |-> OldRows] }

Absent == [exists |-> FALSE, covers |-> FALSE, rows |-> <<>>]

Is2xx(status) == status \in 200..299

\* the answers to a read of table t: a table that is absent never answers 2xx;
\* in a run in which Supabase accepts every request, a table that exists
\* answers 200
GetAnswers(t) ==
    IF fair THEN (IF tables[t].exists THEN {200} ELSE {404})
    ELSE IF tables[t].exists THEN {200, 204, 500, NoResponse} ELSE {404, NoResponse}

\* the answers to a write of table t; a 2xx answer means the write was applied;
\* in a run in which Supabase accepts every request, a table that exists
\* answers 200
WriteAnswers(t) ==
    IF fair THEN (IF tables[t].exists THEN {200} ELSE {404})
    ELSE IF tables[t].exists THEN {200, 201, 204, 500, NoResponse} ELSE {404, NoResponse}

\* a request sent by function fn. value: of a write (DELETE, POST), whether its
\* answer was 2xx; of a read, TRUE
Req(method, fn, t, batch, status) ==
    [ev |-> method, fn |-> fn, table |-> t, batch |-> batch,
     value |-> (method = "GET" \/ Is2xx(status))]

\* a return of function fn (called for table t) with the given value

Ret(fn, t, value) ==
    [ev |-> "ret", fn |-> fn, table |-> t, batch |-> <<>>, value |-> value]


-----------------------------------------------------------------------------
(* SupabaseManager: the decisions of the code *)

\* create_table taking any answer of the endpoint for 'the table exists'
create_table_any_answer(status) == status # NoResponse

\* create_table: return True iff the probe answered 200
create_table_result(status) == status = 200

\* get_table_schema: the columns of the sample row of a 200 answer; [] when the
\* table has no row, {} on another status or an exception. The record fields
\* are all among them iff the sample row exists and its columns cover them.
get_table_schema_covers(status, tbl) ==
    status = 200 /\ tbl.rows # <<>> /\ tbl.covers

\* alter_table: False iff a record field is no column of get_table_schema's result
alter_table_result(status, tbl) == get_table_schema_covers(status, tbl)

\* clear_table: return True iff the DELETE answered 200
clear_table_result(status) == status = 200

\* insert_data: a batch is rejected when the POST answered neither 200 nor 201
insert_batch_ok(status) == status \in {200, 201}

\* insert_data: batch = prepared_data[i:i + batch_size]
batch_at(data, i) == SubSeq(data, i + 1, Min(i + batch_size, Len(data)))

\* the loop of insert_data ending one record early
has_next_batch_short(data, i) == i + batch_size + 1 < Len(data)

\* insert_data: range(0, len(prepared_data), batch_size) has a value after i
has_next_batch(data, i) == i + batch_size < Len(data)

\* insert_data going on to the next batch after a rejected one
after_batch_continue(ok, more) ==
    IF more THEN "next_batch" ELSE IF ok THEN "return_true" ELSE "return_false"

\* insert_data after the answer to a batch: 'return False' on a rejected batch,
\* otherwise the next batch, or 'return True' after the last one
after_batch(ok, more) ==
    IF ~ok THEN "return_false" ELSE IF more THEN "next_batch" ELSE "return_true"

\* sync_tally_data without the 'continue' after a failed schema check
after_ensure_no_continue(ok) == "clear_table"

\* sync_tally_data: 'if not self.ensure_table_schema(...): success = False; continue'
after_ensure(ok) == IF ok THEN "clear_table" ELSE "loop"

\* sync_tally_data: 'if not self.clear_table(...): success = False; continue'
after_clear(ok) == IF ok THEN "insert_data" ELSE "loop"

\* sync_tally_data: 'if not data: continue'
skips_table(data) == data = <<>>

\* success overwritten by the last step instead of only ever lowered
success_overwritten(old, ok) == ok

\* sync_tally_data: success after a step of a table returned ok
success_after(old, ok) == old /\ ok

\* sync_data_to_supabase without its no_data branch
no_data_never(data) == FALSE

\* sync_data_to_supabase: 'if not data:', the no_data branch
no_data(data) == data = <<>>

\* sync_data_to_supabase: the status recorded for an entity type
sync_status(synced) == IF synced THEN "success" ELSE "failed"

\* sync_data_to_supabase: success after an entity type
sync_success_after(old, status) == old /\ status # "failed"

-----------------------------------------------------------------------------
(* SupabaseManager.sync_tally_data, one HTTP request per step *)

CurTable == tally_data[idx].table
CurData == tally_data[idx].data

\* a DELETE that is answered 2xx and removes no row
KeepsRows(t) == tables

\* the server after the rows of table t are deleted
Cleared(t) == [tables EXCEPT ![t].rows = <<>>]

\* the server after a batch is inserted into table t
Inserted(t, batch) == [tables EXCEPT ![t].rows = @ \o batch]

\* the for loop of sync_tally_data: the next table, or the return
SyncLoop ==
    /\ UNCHANGED <<xmlVars, libVars, moreVars>>
    /\ pc = "loop"
    /\ IF idx > Len(tally_data)
       THEN /\ trace' = Append(trace, Ret("sync_tally_data", "", success))
            /\ pc' = IF mode = "manager" THEN "done" ELSE "returned"
            /\ result' = IF mode = "manager" THEN success ELSE result
            /\ idx' = idx
       ELSE /\ trace' = trace
            /\ result' = result
            /\ IF skips_table(CurData)
               THEN pc' = "loop" /\ idx' = idx + 1
               ELSE pc' = "get_existing_tables" /\ idx' = idx
    /\ UNCHANGED <<tables, lastStatus, mode, tally_data, success, offset,
                   existing_tables, mapIdx, sync_results, sync_success, sync_log, extracted>>

\* ensure_table_schema up to its branch: get_existing_tables probes every name
\* of common_tables and keeps those that answered 200. (sync_tally_data calls it
\* with records only, so its 'if not sample_data: return True' is never taken;
\* the same holds of 'if not data: return True' in insert_data.)
GetExistingTables ==
    /\ UNCHANGED <<xmlVars, libVars, moreVars>>
    /\ pc = "get_existing_tables"
    /\ \E S \in SUBSET {t \in Range(common_tables) : tables[t].exists} :
       \E st \in GetAnswers(common_tables[Len(common_tables)]) :
          /\ (st = 200) = (common_tables[Len(common_tables)] \in S)
          /\ fair => S = {t \in Range(common_tables) : tables[t].exists}
          /\ existing_tables' = S
          /\ lastStatus' = st
          /\ pc' = IF CurTable \in S THEN "alter_table" ELSE "create_table"
    /\ trace' = trace \o [k \in 1..Len(common_tables) |->
                              Req("GET", "get_existing_tables", common_tables[k], <<>>, 200)]
    /\ UNCHANGED <<tables, mode, tally_data, idx, success, offset, result,
                   mapIdx, sync_results, sync_success, sync_log, extracted>>

\* the end of ensure_table_schema with value ok, and what sync_tally_data does next
EnsureReturns(ok) ==
    /\ pc' = after_ensure(ok)
    /\ success' = success_after(success, ok)
    /\ idx' = IF after_ensure(ok) = "loop" THEN idx + 1 ELSE idx
    /\ existing_tables' = {}

\* ensure_table_schema -> alter_table -> get_table_schema: one GET with limit=1
AlterTable ==
    /\ UNCHANGED <<xmlVars, libVars, moreVars>>
    /\ pc = "alter_table"
    /\ \E st \in GetAnswers(CurTable) :
          /\ lastStatus' = st
          /\ trace' = trace \o <<Req("GET", "get_table_schema", CurTable, <<>>, st),
                                  Ret("ensure_table_schema", CurTable,
                                      alter_table_result(st, tables[CurTable]))>>
          /\ EnsureReturns(alter_table_result(st, tables[CurTable]))
    /\ UNCHANGED <<tables, mode, tally_data, offset, result,
                   mapIdx, sync_results, sync_success, sync_log, extracted>>

\* ensure_table_schema -> create_table: one GET with select=count
CreateTable ==
    /\ UNCHANGED <<xmlVars, libVars, moreVars>>
    /\ pc = "create_table"
    /\ \E st \in GetAnswers(CurTable) :
          /\ lastStatus' = st
          /\ trace' = trace \o <<Req("GET", "create_table", CurTable, <<>>, st),
                                  Ret("ensure_table_schema", CurTable,
                                      create_table_result(st))>>
          /\ EnsureReturns(create_table_result(st))
    /\ UNCHANGED <<tables, mode, tally_data, offset, result,
                   mapIdx, sync_results, sync_success, sync_log, extracted>>

\* clear_table: one DELETE
ClearTable ==
    /\ UNCHANGED <<xmlVars, libVars, moreVars>>
    /\ pc = "clear_table"
    /\ \E st \in WriteAnswers(CurTable) :
          /\ lastStatus' = st
          /\ tables' = IF Is2xx(st) THEN Cleared(CurTable) ELSE tables
          /\ trace' = trace \o <<Req("DELETE", "clear_table", CurTable, <<>>, st),
                                  Ret("clear_table", CurTable, clear_table_result(st))>>
          /\ pc' = after_clear(clear_table_result(st))
          /\ success' = success_after(success, clear_table_result(st))
          /\ idx' = IF after_clear(clear_table_result(st)) = "loop" THEN idx + 1 ELSE idx
    /\ offset' = 0
    /\ UNCHANGED <<mode, tally_data, existing_tables, result,
                   mapIdx, sync_results, sync_success, sync_log, extracted>>

\* insert_data: one POST of the batch at offset; the return on a rejected batch
\* or after the last one
InsertData ==
    /\ UNCHANGED <<xmlVars, libVars, moreVars>>
    /\ pc = "insert_data"
    /\ \E st \in WriteAnswers(CurTable) :
          LET batch == batch_at(CurData, offset)
              post == Req("POST", "insert_data", CurTable, batch, st)
              next == after_batch(insert_batch_ok(st), has_next_batch(CurData, offset))
          IN  /\ lastStatus' = st
              /\ tables' = IF Is2xx(st) THEN Inserted(CurTable, batch) ELSE tables
              /\ IF next = "next_batch"
                 THEN /\ trace' = Append(trace, post)
                      /\ offset' = offset + batch_size
                      /\ UNCHANGED <<success, pc, idx>>
                 ELSE /\ trace' = trace \o
                            <<post, Ret("insert_data", CurTable, next = "return_true")>>
                      /\ success' = success_after(success, next = "return_true")
                      /\ pc' = "loop" /\ idx' = idx + 1 /\ offset' = offset
    /\ UNCHANGED <<mode, tally_data, existing_tables, result,
                   mapIdx, sync_results, sync_success, sync_log, extracted>>

-----------------------------------------------------------------------------
(* TallySupabaseSync.sync_data_to_supabase *)

CurType == mapping[mapIdx]

\* what the file system does during save_sync_log: the read and the write
\* succeed; open raises (the file is left as it is); or the write raises after
\* open(..., 'w') emptied the file
IoOutcomes == {"ok", "open_raises", "write_raises"}

\* sync_log.json described by log_file and sync_log: absent, a JSON list of
\* entries, or a text json.load rejects
LogFile(state, entries) == [state |-> state, entries |-> entries]

\* save_sync_log: the file after the call; every exception is caught and logged
save_sync_log(file, results, io) ==
    IF file.state = "unreadable" \/ io = "open_raises" THEN file
    ELSE IF io = "write_raises" THEN LogFile("unreadable", <<>>)
    ELSE LogFile("json", Append(file.entries, results))

\* the status get_sync_status gives when it finds no entry
no_status == [timestamp |-> "None", results |-> <<>>]

\* get_sync_status: the latest entry, or the default when the file is absent,
\* empty of entries or unreadable
get_sync_status(file) ==
    IF file.state = "json" /\ file.entries # <<>>
    THEN [timestamp |-> "set", results |-> file.entries[Len(file.entries)]]
    ELSE no_status

\* the for loop over mapping.items(): fetch the records of the next entity type
\* (any number of them; a failed fetch gives none), then either record no_data
\* or call sync_tally_data({table_name: data}); after the last type,
\* save_sync_log rewrites sync_log.json and the function returns success
SyncDataLoop ==
    /\ UNCHANGED <<xmlVars, libVars, extractorVars, pageVars, runs, fair>>
    /\ pc = "sync_loop"
    /\ IF mapIdx > Len(mapping)
       THEN /\ \E io \in IoOutcomes :
                 \E saved \in {save_sync_log(LogFile(log_file, sync_log), sync_results, io)} :
                     /\ log_file' = saved.state
                     /\ sync_log' = saved.entries
            /\ result' = sync_success
            /\ pc' = "done"
            /\ UNCHANGED <<tally_data, idx, success, mapIdx, sync_results, extracted>>
       ELSE \E n \in DataSizes :
            /\ extracted' = [extracted EXCEPT ![CurType] = n]
            /\ tally_data' = <<[table |-> table_of(CurType), data |-> Records(n)]>>
            /\ IF no_data(Records(n))
               THEN /\ sync_results' = [sync_results EXCEPT ![CurType] =
                           [status |-> "no_data", count |-> 0]]
                    /\ mapIdx' = mapIdx + 1
                    /\ pc' = "sync_loop"
                    /\ UNCHANGED <<idx, success>>
               ELSE /\ idx' = 1
                    /\ success' = TRUE
                    /\ pc' = "loop"
                    /\ UNCHANGED <<mapIdx, sync_results>>
            /\ UNCHANGED <<sync_log, log_file, result>>
    /\ UNCHANGED <<tables, lastStatus, mode, offset, existing_tables, trace,
                   sync_success>>

\* sync_tally_data({table_name: data}) returned: record success or failed
SyncDataReturn ==
    /\ UNCHANGED <<xmlVars, libVars, moreVars>>
    /\ pc = "returned"
    /\ LET status == sync_status(success)
       IN  /\ sync_results' = [sync_results EXCEPT ![CurType] =
                   [status |-> status, count |-> Len(tally_data[1].data)]]
           /\ sync_success' = sync_success_after(sync_success, status)
    /\ mapIdx' = mapIdx + 1
    /\ pc' = "sync_loop"
    /\ UNCHANGED <<tables, lastStatus, mode, tally_data, idx, success, offset,
                   existing_tables, result, trace, sync_log, extracted>>

-----------------------------------------------------------------------------
(* Text.  A Python str is modelled as a sequence of characters; a        *)
(* printable character is the one-character string, a control character  *)
(* is written by its ASCII name ("NUL", "TAB", "DEL").                   *)

Chars(str) == [k \in 1..Len(str) |-> SubSeq(str, k, k)]

\* U+0020 .. U+007E, in code order (U+0060 by its name)
Printable ==
    Chars(" !\"#$%&'()*+,-./0123456789:;<=>?@ABCDEFGHIJKLMNOPQRSTUVWXYZ[\\]^_")
        \o <<"GRAVE">> \o Chars("abcdefghijklmnopqrstuvwxyz{|}~")

\* U+0000 .. U+001F, in code order
C0Controls ==
    <<"NUL", "SOH", "STX", "ETX", "EOT", "ENQ", "ACK", "BEL", "BS", "TAB", "LF",
      "VT", "FF", "CR", "SO", "SI", "DLE", "DC1", "DC2", "DC3", "DC4", "NAK",
      "SYN", "ETB", "CAN", "EM", "SUB", "ESC", "FS", "GS", "RS", "US">>

Alphabet == Range(C0Controls) \cup Range(Printable) \cup {"DEL"}

\* the code point of a character
Code ==
    [c \in Alphabet |->
        IF c = "DEL" THEN 127
        ELSE IF c \in Range(C0Controls)
             THEN (CHOOSE k \in 1..Len(C0Controls) : C0Controls[k] = c) - 1
             ELSE (CHOOSE k \in 1..Len(Printable) : Printable[k] = c) + 31]

\* a regular-expression character class given by its code points
CharClass(codes) == {c \in Alphabet : Code[c] \in codes}

\* str.find: the first position >= from of a character of S, 0 if none
Find(s, from, S) ==
    IF \E k \in from..Len(s) : s[k] \in S
    THEN CHOOSE k \in from..Len(s) :
             s[k] \in S /\ \A m \in from..(k - 1) : s[m] \notin S
    ELSE 0

\* s[k:].startswith(w)
StartsWith(s, k, w) ==
    /\ k + Len(w) - 1 <= Len(s)
    /\ \A m \in 1..Len(w) : s[k + m - 1] = w[m]

\* str.replace(old, new, 1): only the first occurrence is replaced
replace_first(s, old, new) ==
    IF Find(s, 1, {old}) = 0 THEN s
    ELSE SubSeq(s, 1, Find(s, 1, {old}) - 1) \o new
             \o SubSeq(s, Find(s, 1, {old}) + 1, Len(s))

\* str.replace(old, new) for a one-character old
RECURSIVE replace(_, _, _)
replace(s, old, new) ==
    LET k == Find(s, 1, {old})
    IN  IF k = 0 THEN s
        ELSE SubSeq(s, 1, k - 1) \o new \o replace(SubSeq(s, k + 1, Len(s)), old, new)

-----------------------------------------------------------------------------
(* clean_xml_response (src/tally_http_client.py:17-35, the same text in  *)
(* src/simple_tally_api.py:21-39)                                        *)

\* r'[\x00-\x08\x0B\x0C\x0E-\x1F\x7F]' with every control character in the class
invalid_xml_chars_all_controls == CharClass((0..31) \cup {127})

\* r'[\x00-\x08\x0B\x0C\x0E-\x1F\x7F]'
invalid_xml_chars == CharClass((0..8) \cup {11, 12} \cup (14..31) \cup {127})

\* [a-zA-Z]
letters == CharClass((65..90) \cup (97..122))

xmlns_colon == Chars("xmlns:")
xmlns_equals_quote == Chars("xmlns=\"")
amp_entity == Chars("&amp;")

\* the end of the match of the pattern that starts at position k of s, 0 when
\* the pattern does not match there
match_end(pattern, s, k) ==
    CASE pattern = "xmlns:[^=]*=\"[^\"]*\"" ->
            IF ~StartsWith(s, k, xmlns_colon) THEN 0
            ELSE LET e == Find(s, k + Len(xmlns_colon), {"="})
                 IN  IF e = 0 \/ e = Len(s) THEN 0
                     ELSE IF s[e + 1] # "\"" THEN 0
                     ELSE Find(s, e + 2, {"\""})
      [] pattern = "[a-zA-Z]+:" ->
            IF s[k] \notin letters THEN 0
            ELSE LET e == Find(s, k, Alphabet \ letters)
                 IN  IF e # 0 /\ s[e] = ":" THEN e ELSE 0
      [] pattern = "xmlns=\"[^\"]*\"" ->
            IF ~StartsWith(s, k, xmlns_equals_quote) THEN 0
            ELSE Find(s, k + Len(xmlns_equals_quote), {"\""})

\* re.sub(pattern, '', s): the matches are taken leftmost first, without overlap
RECURSIVE re_sub(_, _)
re_sub(pattern, s) ==
    IF \E k \in 1..Len(s) : match_end(pattern, s, k) # 0
    THEN LET k == CHOOSE k \in 1..Len(s) :
                      /\ match_end(pattern, s, k) # 0
                      /\ \A m \in 1..(k - 1) : match_end(pattern, s, m) = 0
             e == match_end(pattern, s, k)
         IN  SubSeq(s, 1, k - 1) \o re_sub(pattern, SubSeq(s, e + 1, Len(s)))
    ELSE s

\* re.sub(r'[...]', '', s) for a character class
re_sub_class(class, s) == SelectSeq(s, LAMBDA c : c \notin class)

\* the value of xml_text after each of the six statements
clean_xml_steps(xml_text) ==
    LET s1 == replace(xml_text, "NUL", <<>>)
        s2 == re_sub_class(invalid_xml_chars, s1)
        s3 == replace(s2, "&", amp_entity)
        s4 == re_sub("xmlns:[^=]*=\"[^\"]*\"", s3)
        s5 == re_sub("[a-zA-Z]+:", s4)
        s6 == re_sub("xmlns=\"[^\"]*\"", s5)
    IN  <<s1, s2, s3, s4, s5, s6>>

clean_xml_response(xml_text) == clean_xml_steps(xml_text)[6]
-----------------------------------------------------------------------------
(* ET.fromstring (xml.etree.ElementTree over expat, namespace aware), on *)
(* the documents of the model: elements, attributes, character data and  *)
(* the predefined entities.  No modelled text holds "<?", "<!", "&#" or  *)
(* "]]>", so declarations, comments, CDATA sections and character        *)
(* references are left out.  An element of the tree keeps what the       *)
(* extraction code reads: tag, text (before the first child), children.  *)

\* a result that is a value, or the exception ET.ParseError
ParseError == [ok |-> FALSE]
Ok(v) == [ok |-> TRUE, value |-> v]

\* Python's None, where a text is expected
None == <<"None">>

whitespace == {" ", "TAB", "LF", "CR"}
digits == CharClass(48..57)
name_start == letters \cup {"_", ":"}
name_chars == name_start \cup digits \cup {"-", "."}
\* Char of XML 1.0 within ASCII: #x9 | #xA | #xD | #x20 and above
xml_chars == CharClass({9, 10, 13} \cup (32..127))
quotes == {"\"", "'"}

entities ==
    {<<Chars("amp"), "&">>, <<Chars("lt"), "<">>, <<Chars("gt"), ">">>,
     <<Chars("quot"), "\"">>, <<Chars("apos"), "'">>}

AllIn(s, S) == \A k \in 1..Len(s) : s[k] \in S

\* end-of-line handling: CR LF and a lone CR are read as LF
normalize_newlines(s) ==
    SelectSeq([k \in 1..Len(s) |->
                  IF s[k] # "CR" THEN s[k]
                  ELSE IF k < Len(s) /\ s[k + 1] = "LF" THEN "dropped" ELSE "LF"],
              LAMBDA c : c # "dropped")

\* the character an entity reference stands for
entity_char(name) == (CHOOSE ent \in entities : ent[1] = name)[2]

\* a reference to the entity name, followed by the character data rest
after_entity(name, rest) ==
    IF ~\E ent \in entities : ent[1] = name THEN ParseError
    ELSE IF ~rest.ok THEN ParseError
    ELSE Ok(<<entity_char(name)>> \o rest.value)

\* character data before an entity reference
before_entity(s, rest) ==
    IF ~rest.ok THEN ParseError ELSE Ok(normalize_newlines(s) \o rest.value)

\* character data or an attribute value without "<": entity references replaced
RECURSIVE char_data(_)
char_data(s) ==
    IF Find(s, 1, {"&"}) = 0 THEN Ok(normalize_newlines(s))
    ELSE IF Find(s, 1, {"&"}) > 1
    THEN before_entity(SubSeq(s, 1, Find(s, 1, {"&"}) - 1),
                       char_data(SubSeq(s, Find(s, 1, {"&"}), Len(s))))
    ELSE IF Find(s, 1, {";"}) = 0 THEN ParseError
    ELSE after_entity(SubSeq(s, 2, Find(s, 1, {";"}) - 1),
                      char_data(SubSeq(s, Find(s, 1, {";"}) + 1, Len(s))))

\* the position of the ">" that ends the tag opened before position from
\* (a ">" inside a quoted attribute value does not end it), 0 if none
RECURSIVE tag_end(_, _)
tag_end(s, from) ==
    LET k == Find(s, from, quotes \cup {">", "<"})
    IN  IF k = 0 THEN 0
        ELSE IF s[k] = ">" THEN k
        ELSE IF s[k] = "<" THEN 0
        ELSE LET q == Find(s, k + 1, {s[k]})
             IN  IF q = 0 THEN 0 ELSE tag_end(s, q + 1)

\* the attributes of a start tag, s being what follows the element name
RECURSIVE attributes(_, _)
attributes(s, acc) ==
    LET k == Find(s, 1, Alphabet \ whitespace)
        n == Find(s, k, Alphabet \ name_chars)
        eq == Find(s, n, Alphabet \ whitespace)
        q == Find(s, eq + 1, Alphabet \ whitespace)
        c == Find(s, q + 1, {s[q]})
        name == SubSeq(s, k, n - 1)
        raw == SubSeq(s, q + 1, c - 1)
        value == char_data([m \in 1..Len(raw) |->
                               IF raw[m] \in whitespace THEN " " ELSE raw[m]])
    IN  IF k = 0 THEN Ok(acc)
        ELSE IF k = 1 \/ s[k] \notin name_start \/ n = 0 THEN ParseError
        ELSE IF eq = 0 \/ s[eq] # "=" THEN ParseError
        ELSE IF q = 0 \/ s[q] \notin quotes THEN ParseError
        ELSE IF c = 0 \/ "<" \in Range(raw) \/ ~AllIn(raw, xml_chars) THEN ParseError
        ELSE IF ~value.ok \/ \E m \in 1..Len(acc) : acc[m].name = name THEN ParseError
        ELSE attributes(SubSeq(s, c + 1, Len(s)),
                        Append(acc, [name |-> name, value |-> value.value]))

\* qualified names: prefix ":" local
colon(name) == Find(name, 1, {":"})
prefix_of(name) == SubSeq(name, 1, colon(name) - 1)
local_of(name) == SubSeq(name, colon(name) + 1, Len(name))
qname_ok(name) ==
    \/ colon(name) = 0
    \/ /\ 1 < colon(name)
       /\ colon(name) < Len(name)
       /\ Find(name, colon(name) + 1, {":"}) = 0

xmlns == Chars("xmlns")
is_declaration(name) == name = xmlns \/ (colon(name) # 0 /\ prefix_of(name) = xmlns)
declared_prefix(name) == IF name = xmlns THEN <<>> ELSE local_of(name)

\* the bindings in scope at the document element: prefix -> namespace name
xml_namespace == (Chars("xml") :> Chars("http://www.w3.org/XML/1998/namespace"))

\* the bindings in scope inside an element with these attributes
bind(ns, attrs) ==
    LET decls == {a \in Range(attrs) : is_declaration(a.name)}
    IN  [p \in DOMAIN ns \cup {declared_prefix(a.name) : a \in decls} |->
            IF \E a \in decls : declared_prefix(a.name) = p
            THEN (CHOOSE a \in decls : declared_prefix(a.name) = p).value
            ELSE ns[p]]

\* the names of a start tag are usable in scope ns
names_bound(qname, attrs, ns) ==
    /\ qname_ok(qname)
    /\ colon(qname) # 0 => prefix_of(qname) \in DOMAIN ns
    /\ \A a \in Range(attrs) :
          /\ qname_ok(a.name)
          /\ (colon(a.name) # 0 /\ ~is_declaration(a.name)) => prefix_of(a.name) \in DOMAIN ns
          /\ (is_declaration(a.name) /\ a.name # xmlns) => a.value # <<>>

\* Element.tag: "{namespace}local" for a name in a namespace
tag_of(qname, ns) ==
    IF colon(qname) # 0
    THEN <<"{">> \o ns[prefix_of(qname)] \o <<"}">> \o local_of(qname)
    ELSE IF <<>> \in DOMAIN ns /\ ns[<<>>] # <<>>
         THEN <<"{">> \o ns[<<>>] \o <<"}">> \o qname
         ELSE qname

\* the element with the qualified name qname and the attributes attrs
\* (ParseError if they are malformed), below the bindings ns
open_element(qname, attrs, ns) ==
    IF qname = <<>> THEN ParseError
    ELSE IF qname[1] \notin name_start \/ ~attrs.ok THEN ParseError
    ELSE IF ~names_bound(qname, attrs.value, bind(ns, attrs.value)) THEN ParseError
    ELSE Ok([qname |-> qname, ns |-> bind(ns, attrs.value),
             tag |-> tag_of(qname, bind(ns, attrs.value)),
             text |-> <<>>, children |-> <<>>])

\* the start tag with the name that ends before position n of inner (0: at
\* its end)
named_start_tag(inner, n, ns) ==
    IF n = 0 THEN open_element(inner, Ok(<<>>), ns)
    ELSE open_element(SubSeq(inner, 1, n - 1),
                      attributes(SubSeq(inner, n, Len(inner)), <<>>), ns)

\* the element a start tag opens; inner is the text between "<" and ">" ("/>")
start_tag(inner, ns) ==
    named_start_tag(inner, Find(inner, 1, Alphabet \ name_chars), ns)

Element(open) == [tag |-> open.tag, text |-> open.text, children |-> open.children]

Last(s) == s[Len(s)]
ButLast(s) == SubSeq(s, 1, Len(s) - 1)

\* character data d inside the innermost open element: its text up to its
\* first child (the rest is the tail of a child, which the tree omits)
add_text(stack, d) ==
    IF Last(stack).children # <<>> THEN stack
    ELSE [stack EXCEPT ![Len(stack)].text = @ \o d]

\* a closed element becomes the last child of the element around it
add_child(stack, elem) ==
    [stack EXCEPT ![Len(stack)].children = Append(@, elem)]

\* where the parse stands: the next position, the open elements (innermost
\* last) and the document element once it is closed
At(i, stack, doc) == [ok |-> TRUE, i |-> i, stack |-> stack, doc |-> doc]

\* character data seg, ending at position e
text_step(seg, e, stack, doc) ==
    IF stack = <<>>
    THEN IF AllIn(seg, whitespace) THEN At(e + 1, stack, doc) ELSE ParseError
    ELSE IF ~AllIn(seg, xml_chars) THEN ParseError
    ELSE IF ~char_data(seg).ok THEN ParseError
    ELSE At(e + 1, add_text(stack, char_data(seg).value), doc)

\* an end tag with the text inner after "</", ending at position j
end_tag_step(inner, n, j, stack, doc) ==
    IF stack = <<>> THEN ParseError
    ELSE IF (IF n = 0 THEN inner ELSE SubSeq(inner, 1, n - 1)) # Last(stack).qname
    THEN ParseError
    ELSE IF n # 0 /\ ~AllIn(SubSeq(inner, n, Len(inner)), whitespace) THEN ParseError
    ELSE IF Len(stack) = 1 THEN At(j + 1, <<>>, Ok(Element(stack[1])))
    ELSE At(j + 1, add_child(ButLast(stack), Element(Last(stack))), doc)

\* a start tag (an empty-element tag when empty) that opens the element
\* open, ending at position j
start_tag_step(open, empty, j, stack, doc) ==
    IF stack = <<>> /\ doc.ok THEN ParseError
    ELSE IF ~open.ok THEN ParseError
    ELSE IF ~empty THEN At(j + 1, Append(stack, open.value), doc)
    ELSE IF stack = <<>> THEN At(j + 1, <<>>, Ok(Element(open.value)))
    ELSE At(j + 1, add_child(stack, Element(open.value)), doc)

\* the tag that starts at position i and ends at position j (0: nowhere)
tag_step(s, i, j, stack, doc) ==
    IF j = 0 THEN ParseError
    ELSE IF s[i + 1] = "/"
    THEN end_tag_step(SubSeq(s, i + 2, j - 1),
                      Find(SubSeq(s, i + 2, j - 1), 1, Alphabet \ name_chars),
                      j, stack, doc)
    ELSE start_tag_step(start_tag(SubSeq(s, i + 1, IF s[j - 1] = "/" THEN j - 2 ELSE j - 1),
                                  IF stack = <<>> THEN xml_namespace ELSE Last(stack).ns),
                        s[j - 1] = "/", j, stack, doc)

\* the end of the character data that starts at position i
text_end(s, j) == IF j = 0 THEN Len(s) ELSE j - 1

\* the parse consumes what starts at position i: a tag or character data
parse_step(s, i, stack, doc) ==
    IF s[i] = "<" THEN tag_step(s, i, tag_end(s, i + 1), stack, doc)
    ELSE text_step(SubSeq(s, i, text_end(s, Find(s, i, {"<"}))),
                   text_end(s, Find(s, i, {"<"})), stack, doc)

\* the parse of s from where at stands
RECURSIVE parse_from(_, _)
parse_from(s, at) ==
    IF ~at.ok THEN ParseError
    ELSE IF at.i > Len(s) THEN IF at.stack = <<>> THEN at.doc ELSE ParseError
    ELSE parse_from(s, parse_step(s, at.i, at.stack, at.doc))

\* ET.fromstring(text): the document element, or ParseError
fromstring(text) == parse_from(text, At(1, <<>>, ParseError))
-----------------------------------------------------------------------------
(* The responses of Tally: a document with a hole, the hole filled with *)
(* up to MaxFrags fragments; a long response starts with PadLen blanks   *)

\* the largest number of fragments in the hole of a response
MaxFrags == 2

\* the number of blanks in front of a long response
PadLen == 495

\* safe_parse_xml: xml_text[:500]
excerpt_len == 500

fragments ==
    {Chars("x"), Chars("&"), Chars("&amp;"), Chars("a:"), Chars("<"),
     Chars(" xmlns:a=\"u\""), Chars(" xmlns=\"u\""),
     <<"NUL", "BS", "TAB">>, <<"LF", "VT", "FF", "CR">>, <<"SO", "US", "DEL">>}

no_xml == <<Chars(""), Chars("")>>

\* what Tally answers to the request of an extraction call, as <<text before
\* the hole, text after the hole>>: the collection or report asked for, or
\* a text that is no XML document
documents(call) ==
    CASE call = "get_companies" ->
            {<<Chars("<ENVELOPE><COLLECTION><COMPANY><NAME>"),
               Chars("</NAME><GUID>g1</GUID></COMPANY></COLLECTION></ENVELOPE>")>>,
             no_xml}
      [] call = "get_divisions" ->
            {<<Chars("<ENVELOPE"),
               Chars("><COLLECTION><a:COSTCENTRE/></COLLECTION></ENVELOPE>")>>,
             no_xml}
      [] call = "get_ledgers" ->
            {<<Chars("<ENVELOPE><COLLECTION><LEDGER><NAME>Cash</NAME><"),
               Chars("PARENT>Assets</PARENT></LEDGER></COLLECTION></ENVELOPE>")>>,
             <<Chars("<ENVELOPE><COLLECTION><LEDGER><NAME>A</NAME></LEDGER><LEDGER><NAME>"),
               Chars("</NAME></LEDGER><GROUP><LEDGER/></GROUP></COLLECTION><LEDGER/></ENVELOPE>")>>,
             no_xml}
      [] call = "get_groups" ->
            {<<Chars("<ENVELOPE><COLLECTION>"), Chars("</COLLECTION></ENVELOPE>")>>,
             <<Chars("<ENVELOPE xmlns:a=\"u\" xmlns:n1=\"v\"><COLLECTION><a:GROUP><n1:NAME>"),
               Chars("</n1:NAME></a:GROUP></COLLECTION></ENVELOPE>")>>,
             no_xml}
      [] call = "get_vouchers" ->
            {<<Chars("<ENVELOPE><VOUCHER><VOUCHERNUMBER>1</VOUCHERNUMBER><AMOUNT>"),
               Chars("</AMOUNT></VOUCHER></ENVELOPE>")>>,
             no_xml}
      [] call = "get_voucher_entries" ->
            {<<Chars("<ENVELOPE><VOUCHER><DATE>20240401</DATE><LEDGERENTRY><LEDGERNAME>"),
               Chars("</LEDGERNAME></LEDGERENTRY></VOUCHER></ENVELOPE>")>>,
             <<Chars("<ENVELOPE><VOUCHER><VOUCHERNUMBER>1</VOUCHERNUMBER><LEDGERENTRY/><VOUCHER><VOUCHERNUMBER>2</VOUCHERNUMBER><LEDGERENTRY><LEDGERNAME>"),
               Chars("</LEDGERNAME></LEDGERENTRY></VOUCHER></VOUCHER><LEDGERENTRY/><LEDGERENTRY/></ENVELOPE>")>>,
             no_xml}

RECURSIVE Flatten(_)
Flatten(ss) == IF ss = <<>> THEN <<>> ELSE Head(ss) \o Flatten(Tail(ss))

Fillings(most) == UNION {[1..n -> fragments] : n \in 0..most}

Blanks(n) == [k \in 1..n |-> " "]

\* a long response has at most one fragment in its hole
ResponseTexts(call) ==
    {doc[1] \o Flatten(fill) \o doc[2] :
        doc \in documents(call), fill \in Fillings(MaxFrags)}
    \cup {Blanks(PadLen) \o doc[1] \o Flatten(fill) \o doc[2] :
        doc \in documents(call), fill \in Fillings(1)}

\* requests.post / raise_for_status: the subclasses of RequestException raised
RequestExceptions == {"ConnectionError", "Timeout", "HTTPError"}

\* what the request to Tally gives: an exception, or a response with a text
Responses(call) ==
    {[raises |-> e, text |-> <<>>] : e \in RequestExceptions}
        \cup {[raises |-> "none", text |-> t] : t \in ResponseTexts(call)}

NoResponseYet == [raises |-> "none", text |-> <<>>]

-----------------------------------------------------------------------------
(* The extraction calls of TallyHTTPClient *)

\* a traversal that stops at the children: elem and its direct children with
\* the tag
iter_shallow(elem, tag) ==
    (IF elem.tag = tag THEN <<elem>> ELSE <<>>)
        \o Flatten([k \in 1..Len(elem.children) |->
               IF elem.children[k].tag = tag THEN <<elem.children[k]>> ELSE <<>>])

\* Element.iter(tag): the element and its descendants with that tag, in
\* document order
RECURSIVE iter(_, _)
iter(elem, tag) ==
    (IF elem.tag = tag THEN <<elem>> ELSE <<>>)
        \o Flatten([k \in 1..Len(elem.children) |-> iter(elem.children[k], tag)])

\* Element.findtext(tag): the text of the first child with that tag ('' when
\* it has none), None without such a child
findtext(elem, tag) ==
    LET ks == {k \in 1..Len(elem.children) : elem.children[k].tag = tag}
    IN  IF ks = {} THEN None
        ELSE elem.children[CHOOSE k \in ks : \A m \in ks : k <= m].text

extraction_calls ==
    {"get_companies", "get_divisions", "get_ledgers", "get_groups",
     "get_vouchers", "get_voucher_entries"}

\* the keys of a record and the tag each is read from
fields(call) ==
    CASE call = "get_companies" ->
            <<<<"Name", "NAME">>, <<"GUID", "GUID">>, <<"Email", "EMAIL">>,
              <<"State", "STATE">>, <<"Pincode", "PINCODE">>, <<"Phone", "PHONE">>,
              <<"CompanyNumber", "COMPANYNUMBER">>>>
      [] call = "get_divisions" ->
            <<<<"Name", "NAME">>, <<"GUID", "GUID">>, <<"Parent", "PARENT">>,
              <<"Category", "CATEGORY">>>>
      [] call = "get_ledgers" ->
            <<<<"Name", "NAME">>, <<"GUID", "GUID">>, <<"Parent", "PARENT">>,
              <<"OpeningBalance", "OPENINGBALANCE">>,
              <<"ClosingBalance", "CLOSINGBALANCE">>>>
      [] call = "get_groups" ->
            <<<<"Name", "NAME">>, <<"GUID", "GUID">>, <<"Parent", "PARENT">>>>
      [] call = "get_vouchers" ->
            <<<<"VoucherNumber", "VOUCHERNUMBER">>, <<"Date", "DATE">>,
              <<"VoucherTypeName", "VOUCHERTYPENAME">>, <<"Narration", "NARRATION">>,
              <<"Reference", "REFERENCE">>, <<"Amount", "AMOUNT">>>>
      [] call = "get_voucher_entries" ->
            <<<<"LedgerName", "LEDGERNAME">>, <<"Amount", "AMOUNT">>,
              <<"Narration", "NARRATION">>,
              <<"PartyLedgerName", "PARTYLEDGERNAME">>>>

voucher_fields ==
    <<<<"VoucherNumber", "VOUCHERNUMBER">>, <<"VoucherDate", "DATE">>,
      <<"VoucherType", "VOUCHERTYPENAME">>>>

\* {key: elem.findtext(tag), ...}
record(elem, fs) ==
    [key \in {fs[k][1] : k \in 1..Len(fs)} |->
        findtext(elem, Chars(fs[CHOOSE k \in 1..Len(fs) : fs[k][1] = key][2]))]

\* the records of a traversal by tag: one for every element with the tag of
\* the entity, wherever it lies
extract_by_tag(call, tree) ==
    LET tag == CASE call = "get_companies" -> "COMPANY"
                 [] call = "get_divisions" -> "COSTCENTRE"
                 [] call = "get_ledgers" -> "LEDGER"
                 [] call = "get_groups" -> "GROUP"
                 [] call = "get_vouchers" -> "VOUCHER"
                 [] call = "get_voucher_entries" -> "LEDGERENTRY"
        es == iter(tree, Chars(tag))
    IN  [k \in 1..Len(es) |-> record(es[k], fields(call))]

\* the list the try block of an extraction call builds from the parsed root
extract(call, tree) ==
    IF call = "get_vouchers"
    THEN LET vs == iter(tree, Chars("VOUCHER"))
         IN  [k \in 1..Len(vs) |-> record(vs[k], fields(call))]
    ELSE IF call = "get_voucher_entries"
    THEN LET vs == iter(tree, Chars("VOUCHER"))
         IN  Flatten([k \in 1..Len(vs) |->
                 LET es == iter(vs[k], Chars("LEDGERENTRY"))
                 IN  [e \in 1..Len(es) |->
                         record(vs[k], voucher_fields) @@ record(es[e], fields(call))]])
    ELSE LET cs == iter(tree, Chars("COLLECTION"))
         IN  Flatten([c \in 1..Len(cs) |->
                 [k \in 1..Len(cs[c].children) |->
                     record(cs[c].children[k], fields(call))]])
-----------------------------------------------------------------------------
(* One extraction call of TallyHTTPClient, from the call to its return *)

NoRoot == [tag |-> None, text |-> <<>>, children |-> <<>>]

\* logger.error(...)
LogRecord(msg, detail) == [msg |-> msg, detail |-> detail]

\* xml_text[:500] without the cut
xml_content_whole(xml_text) == xml_text

\* xml_text[:500]
xml_content(xml_text) == SubSeq(xml_text, 1, Min(excerpt_len, Len(xml_text)))

\* the except clause of an extraction call: what the call returns
except_return == <<>>

\* the except clause of an extraction call: what it logs
error_message(call) ==
    CASE call = "get_companies" -> "Error getting companies"
      [] call = "get_divisions" -> "Error getting divisions"
      [] call = "get_ledgers" -> "Error getting ledgers"
      [] call = "get_groups" -> "Error getting groups"
      [] call = "get_vouchers" -> "Error getting vouchers"
      [] call = "get_voucher_entries" -> "Error getting voucher entries"

\* get_companies() ... get_voucher_entries(company_name) is called
GetEntity(call) ==
    /\ call_pc = "idle"
    /\ called' = call
    /\ call_pc' = "send_request"
    /\ UNCHANGED <<response, xml_steps, parser_calls, root, raised, log, returned>>
    /\ UNCHANGED <<syncVars, libVars, moreVars>>

\* send_request up to the call of safe_parse_xml: requests.post and
\* raise_for_status; a RequestException is logged and raised again
SendRequest ==
    /\ call_pc = "send_request"
    /\ \E r \in Responses(called) :
          /\ response' = r
          /\ IF r.raises # "none"
             THEN /\ log' = Append(log, LogRecord("Error sending HTTP request to Tally",
                                                  <<r.raises>>))
                  /\ raised' = r.raises
                  /\ call_pc' = "except"
             ELSE /\ call_pc' = "safe_parse_xml"
                  /\ UNCHANGED <<log, raised>>
    /\ UNCHANGED <<called, xml_steps, parser_calls, root, returned>>
    /\ UNCHANGED <<syncVars, libVars, moreVars>>

\* safe_parse_xml(response.text).  The ParseError it raises is no
\* RequestException: it passes through send_request to the extraction call.
SafeParseXml ==
    /\ call_pc = "safe_parse_xml"
    /\ LET xml_text == response.text
           cleaned_xml == clean_xml_response(xml_text)
           parsed == fromstring(cleaned_xml)
       IN  /\ xml_steps' = clean_xml_steps(xml_text)
           /\ parser_calls' = Append(parser_calls, cleaned_xml)
           /\ IF parsed.ok
              THEN /\ root' = parsed.value
                   /\ call_pc' = "extract"
                   /\ UNCHANGED <<log, raised>>
              ELSE /\ log' = log \o <<LogRecord("XML Parse Error", <<"ParseError">>),
                                      LogRecord("XML Content (first 500 chars)",
                                                xml_content(xml_text))>>
                   /\ raised' = "ParseError"
                   /\ call_pc' = "except"
                   /\ root' = root
    /\ UNCHANGED <<called, response, returned>>
    /\ UNCHANGED <<syncVars, libVars, moreVars>>

\* the rest of the try block: the records are built and returned
Extract ==
    /\ call_pc = "extract"
    /\ returned' = extract(called, root)
    /\ call_pc' = "returned"
    /\ UNCHANGED <<called, response, xml_steps, parser_calls, root, raised, log>>
    /\ UNCHANGED <<syncVars, libVars, moreVars>>

\* except Exception as e: logger.error(...); return []
Except ==
    /\ call_pc = "except"
    /\ log' = Append(log, LogRecord(error_message(called), <<raised>>))
    /\ raised' = "none"
    /\ returned' = except_return
    /\ call_pc' = "returned"
    /\ UNCHANGED <<called, response, xml_steps, parser_calls, root>>
    /\ UNCHANGED <<syncVars, libVars, moreVars>>

\* before an extraction call
XmlIdle ==
    /\ called = "none"
    /\ call_pc = "idle"
    /\ response = NoResponseYet
    /\ xml_steps = <<>>
    /\ parser_calls = <<>>
    /\ root = NoRoot
    /\ raised = "none"
    /\ log = <<>>
    /\ returned = <<>>

NoCall == [fn |-> "none"]
NoOutcome == [ok |-> TRUE, value |-> <<>>]

\* before a call of another function
LibIdle ==
    /\ invoked = NoCall
    /\ step = "idle"
    /\ sent = <<>>
    /\ outcome = NoOutcome

\* time.time() when the model starts
Epoch == 0

NoMetadataCall == [fn |-> "none"]

\* a TallyMetadataExtractor after construction
ExtractorIdle ==
    /\ socket = "None"
    /\ connected = FALSE
    /\ cache = <<>>
    /\ cache_timestamp = <<>>
    /\ clock = Epoch
    /\ conn_log = <<>>
    /\ last_call = NoMetadataCall
    /\ stores = {}

\* a SupabaseConfigPage after setup_ui
PageIdle ==
    /\ buttons = [test_connection_button |-> TRUE, analyze_button |-> FALSE,
                  sync_button |-> FALSE]
    /\ running = [SupabaseConnectionThread |-> 0, TallyAnalysisThread |-> 0,
                  DataSyncThread |-> 0]
    /\ structure_data = "None"

\* the first run, with a Supabase that may reject requests, and no sync_log.json
FirstRun ==
    /\ runs = <<>>
    /\ fair = FALSE
    /\ log_file = "absent"

\* the parts of the program a specification does not run
MoreIdle ==
    /\ ExtractorIdle
    /\ PageIdle
    /\ FirstRun

-----------------------------------------------------------------------------
(* The specification of a sync run *)

NoResult == [status |-> "none", count |-> 0]

\* the tables a run of the given mode can write to; every other table is absent
ModeTables(m) ==
    IF m = "manager" THEN Range(manager_tables)
    ELSE {table_of(mapping[k]) : k \in 1..Len(mapping)}

\* the state before a sync run
SyncStart ==
    /\ mode \in {"manager", "sync"}
    /\ \E kinds \in [ModeTables(mode) -> TableKinds] :
          tables = [t \in Tables |-> IF t \in ModeTables(mode) THEN kinds[t] ELSE Absent]
    /\ lastStatus = NoResponse
    /\ IF mode = "manager"
       THEN /\ pc = "loop"
            /\ \E sizes \in [1..Len(manager_tables) -> DataSizes] :
                  tally_data = [k \in 1..Len(manager_tables) |->
                      [table |-> manager_tables[k], data |-> Records(sizes[k])]]
       ELSE /\ pc = "sync_loop"
            /\ tally_data = <<>>
    /\ idx = 1
    /\ success = TRUE
    /\ offset = 0
    /\ existing_tables = {}
    /\ result = "none"
    /\ trace = <<>>
    /\ mapIdx = 1
    /\ sync_results = [ty \in Range(mapping) |-> NoResult]
    /\ sync_success = TRUE
    /\ sync_log = <<>>
    /\ extracted = [ty \in Range(mapping) |-> -1]

Init ==
    /\ XmlIdle
    /\ LibIdle
    /\ MoreIdle
    /\ SyncStart

Next ==
    \/ SyncLoop
    \/ GetExistingTables
    \/ AlterTable
    \/ CreateTable
    \/ ClearTable
    \/ InsertData
    \/ SyncDataLoop
    \/ SyncDataReturn

Spec == Init /\ [][Next]_vars

-----------------------------------------------------------------------------
(* The specification of an extraction call *)

\* a SupabaseManager that is not asked to sync
SyncIdle ==
    /\ mode = "manager"
    /\ tables = [t \in Tables |-> Absent]
    /\ lastStatus = NoResponse
    /\ pc = "done"
    /\ tally_data = <<>>
    /\ idx = 1
    /\ success = TRUE
    /\ offset = 0
    /\ existing_tables = {}
    /\ result = "none"
    /\ trace = <<>>
    /\ mapIdx = 1
    /\ sync_results = [ty \in Range(mapping) |-> NoResult]
    /\ sync_success = TRUE
    /\ sync_log = <<>>
    /\ extracted = [ty \in Range(mapping) |-> -1]

InitXml == SyncIdle /\ XmlIdle /\ LibIdle /\ MoreIdle

NextXml ==
    \/ \E call \in extraction_calls : GetEntity(call)
    \/ SendRequest
    \/ SafeParseXml
    \/ Extract
    \/ Except

SpecXml == InitXml /\ [][NextXml]_vars

-----------------------------------------------------------------------------
(* What the trace says about a table *)

\* the steps sync_tally_data takes for one table (the probes of
\* get_existing_tables name every table of common_tables, whichever is synced)
StepFns == {"get_table_schema", "create_table", "clear_table", "insert_data"}

\* a step of table t returned False
Failed(t) ==
    \E i \in DOMAIN trace :
        trace[i].ev = "ret" /\ trace[i].table = t /\ ~trace[i].value

\* the schema check of table t was run
Processed(t) ==
    \E i \in DOMAIN trace :
        trace[i].ev = "ret" /\ trace[i].table = t /\ trace[i].fn = "ensure_table_schema"

\* the write requests sent for table t
Writes(t) ==
    {i \in DOMAIN trace : trace[i].table = t /\ trace[i].ev \in {"DELETE", "POST"}}

\* the POSTs sent for table t, in order
Posts(t) ==
    LET IsPost(e) == e.ev = "POST" /\ e.table = t
    IN  SelectSeq(trace, IsPost)

\* the records of a sequence of POSTs, in order
RECURSIVE BatchRows(_)
BatchRows(posts) ==
    IF posts = <<>> THEN <<>> ELSE posts[1].batch \o BatchRows(Tail(posts))

\* the tables with records that the finished run was given
GivenTables ==
    IF mode = "manager"
    THEN {tally_data[k].table : k \in {j \in DOMAIN tally_data : tally_data[j].data # <<>>}}
    ELSE {table_of(ty) : ty \in {y \in Range(mapping) : extracted[y] > 0}}

\* the tables without records that the run was given
EmptyTables ==
    IF mode = "manager"
    THEN {tally_data[k].table : k \in {j \in DOMAIN tally_data : tally_data[j].data = <<>>}}
    ELSE {table_of(ty) : ty \in {y \in Range(mapping) : extracted[y] = 0}}

-----------------------------------------------------------------------------
(* C1: for every table with records, sync_tally_data runs schema check, clear *)
(* (DELETE) and insert (POST) in that order: a DELETE is sent only after the  *)
(* table's schema check returned True, a POST only after its DELETE was sent  *)
(* and clear_table returned True, and after a step of a table returned False  *)
(* no further step of that table is taken.                                    *)
C1_StepOrder ==
    \A j \in DOMAIN trace :
        LET e == trace[j]
        IN  /\ e.ev = "DELETE" =>
                 \E i \in 1..(j - 1) : trace[i] = Ret("ensure_table_schema", e.table, TRUE)
            /\ e.ev = "POST" =>
                 \E i \in 1..(j - 1) :
                    /\ trace[i] = Ret("clear_table", e.table, TRUE)
                    /\ \E d \in 1..(i - 1) :
                          trace[d].ev = "DELETE" /\ trace[d].table = e.table
            /\ (e.ev = "ret" /\ ~e.value /\ e.fn # "sync_tally_data") =>
                 \A k \in (j + 1)..Len(trace) :
                    ~(trace[k].table = e.table /\ trace[k].fn \in StepFns)

\* a finished run in which one table failed its schema check and another went
\* through schema check, clear and insert
C1_Witness ==
    /\ pc = "done"
    /\ \E i, j \in DOMAIN trace :
          /\ trace[i].ev = "ret" /\ trace[i].fn = "ensure_table_schema" /\ ~trace[i].value
          /\ trace[j].ev = "POST" /\ trace[j].table # trace[i].table

(* C2: when Supabase rejects the POST of batch k, insert_data returns False at *)
(* once, sends no later batch and does not send batch k again, no DELETE       *)
(* follows, and the table holds exactly the rows of batches 1..k-1.            *)
C2_RejectedBatchAborts ==
    \A i \in DOMAIN trace :
        (trace[i].ev = "POST" /\ ~trace[i].value) =>
            LET t == trace[i].table
                before == SelectSeq(SubSeq(trace, 1, i - 1),
                                    LAMBDA e : e.ev = "POST" /\ e.table = t)
            IN  /\ i < Len(trace)
                /\ trace[i + 1] = Ret("insert_data", t, FALSE)
                /\ \A k \in Writes(t) : k <= i
                /\ \A k \in Writes(t) : k # i => trace[k].batch # trace[i].batch
                /\ tables[t].rows = BatchRows(before)

\* a batch after the first was rejected: the cleared table holds a non-empty
\* proper prefix of the new records and the run has ended
C2_Witness ==
    /\ pc = "done"
    /\ \E i \in DOMAIN trace :
          /\ trace[i].ev = "POST" /\ ~trace[i].value
          /\ tables[trace[i].table].rows # <<>>
          /\ \E k \in DOMAIN tally_data :
                /\ tally_data[k].table = trace[i].table
                /\ Len(tables[trace[i].table].rows) < Len(tally_data[k].data)
                /\ tables[trace[i].table].rows =
                      SubSeq(tally_data[k].data, 1, Len(tables[trace[i].table].rows))

(* C3: when every POST of insert_data for n > 0 records was accepted (it       *)
(* returned True), it sent exactly ceil(n/100) POSTs, batch p carried records  *)
(* 100(p-1)+1 .. min(100p, n) in input order, so no batch has more than 100    *)
(* records and the batches together are the input, each record once.           *)
C3_Batching ==
    \A k \in DOMAIN tally_data :
        LET t == tally_data[k].table
            data == tally_data[k].data
            n == Len(data)
            posts == Posts(t)
        IN  (\E i \in DOMAIN trace : trace[i] = Ret("insert_data", t, TRUE)) =>
                /\ n > 0
                /\ Len(posts) = (n + 99) \div 100
                /\ \A p \in DOMAIN posts :
                      /\ posts[p].batch = [q \in 1..(Min(100 * p, n) - 100 * (p - 1)) |->
                                              data[100 * (p - 1) + q]]
                      /\ Len(posts[p].batch) <= 100
                /\ BatchRows(posts) = data

\* an insert of more than one batch whose last batch is not full has returned True
C3_Witness ==
    \E k \in DOMAIN tally_data :
        /\ \E i \in DOMAIN trace : trace[i] = Ret("insert_data", tally_data[k].table, TRUE)
        /\ Len(Posts(tally_data[k].table)) >= 2
        /\ Len(tally_data[k].data) % 100 # 0

(* C4: a DELETE or POST is treated as failed exactly when its answer is not    *)
(* 2xx: after a 2xx answer the step does not return False, and after another   *)
(* answer it does.                                                             *)
C4_WriteFailsIffNon2xx ==
    \A i \in DOMAIN trace :
        trace[i].ev \in {"DELETE", "POST"} =>
            (trace[i].value <=>
                ~(i < Len(trace) /\ trace[i + 1] = Ret(trace[i].fn, trace[i].table, FALSE)))

(* C5: a failed table does not stop the run: when the run has ended, every     *)
(* table that had records went through its schema check, and the result is     *)
(* False if and only if a step of some table returned False.                   *)
C5_ContinuesAfterFailure ==
    pc = "done" =>
        /\ \A t \in GivenTables : Processed(t)
        /\ mode = "sync" => \A ty \in Range(mapping) :
              extracted[ty] >= 0 /\ sync_results[ty].status # "none"
        /\ (result = FALSE) <=> (\E t \in GivenTables : Failed(t))
        /\ result \in BOOLEAN

\* a finished run whose first table failed and whose later table was written
C5_Witness ==
    /\ pc = "done"
    /\ result = FALSE
    /\ \E i, j \in DOMAIN trace :
          /\ i < j
          /\ trace[i].ev = "ret" /\ ~trace[i].value /\ trace[i].fn # "sync_tally_data"
          /\ trace[j].ev = "POST" /\ trace[j].table # trace[i].table

(* C6: an entity type without records is no error: sync_data_to_supabase       *)
(* records 'no_data' for it, no step (schema check, DELETE, POST) of its table *)
(* is taken, get_existing_tables runs once per table that has records, and a   *)
(* run in which no other table failed returns True.                            *)
C6_NoDataIsNoError ==
    /\ \A t \in EmptyTables :
          \A i \in DOMAIN trace :
              trace[i].table = t => trace[i].fn = "get_existing_tables"
    /\ Cardinality({i \in DOMAIN trace :
                       /\ trace[i].fn = "get_existing_tables"
                       /\ trace[i].table = common_tables[1]})
          <= Cardinality(GivenTables)
    /\ mode = "sync" => \A ty \in Range(mapping) :
          extracted[ty] = 0 => sync_results[ty] = [status |-> "no_data", count |-> 0]
    /\ (pc = "done" /\ ~(\E t \in GivenTables : Failed(t))) => result = TRUE

\* a finished run of sync_data_to_supabase with one entity type without records
\* and one whose records were inserted
C6_Witness ==
    /\ pc = "done"
    /\ mode = "sync"
    /\ result = TRUE
    /\ \E ty \in Range(mapping) : extracted[ty] = 0
    /\ \E j \in DOMAIN trace : trace[j].ev = "POST"

(* C7: create_table sends one GET and nothing else, returns True iff the GET   *)
(* answered 200, and creates nothing: a table that does not exist stays absent *)
(* and empty, gets no DELETE and no POST, and is marked failed once processed. *)
C7_CreateTableProbesOnly ==
    /\ \A i \in DOMAIN trace : trace[i].fn = "create_table" => trace[i].ev = "GET"
    /\ (Len(trace) >= 2 /\ trace[Len(trace) - 1].fn = "create_table") =>
          trace[Len(trace)] =
              Ret("ensure_table_schema", trace[Len(trace) - 1].table, lastStatus = 200)
    /\ \A t \in Tables : ~tables[t].exists =>
          /\ Writes(t) = {}
          /\ tables[t].rows = <<>>
          /\ Processed(t) => Failed(t)

\* create_table has answered for a table that does not exist, and the run went
\* on and wrote another table
C7_Witness ==
    \E i, j \in DOMAIN trace :
        /\ trace[i].fn = "create_table" /\ ~tables[trace[i].table].exists
        /\ trace[j].ev = "POST" /\ i < j

-----------------------------------------------------------------------------
(* What a finished extraction call shows of a failure *)

\* the request raised, or safe_parse_xml returned no tree
FetchFailed == response.raises # "none" \/ root = NoRoot

(* C8: when the request to Tally or the parse of its answer fails, the     *)
(* extraction call (get_companies ... get_voucher_entries) ends with the   *)
(* failure raised to its caller: a failed fetch never ends as a returned   *)
(* list.                                                                   *)
C8_FailureReachesCaller ==
    (call_pc = "returned" /\ FetchFailed) => raised # "none"

\* safe_parse_xml was called and has ended
safe_parse_xml_ended ==
    response.raises = "none" /\ call_pc \in {"extract", "except", "returned"}

\* position k of the log holds the two records of a parse failure, the
\* second with the first 500 characters of xml_text
ParseFailureLogged(k, xml_text) ==
    /\ k + 1 <= Len(log)
    /\ log[k].msg = "XML Parse Error"
    /\ log[k + 1].msg = "XML Content (first 500 chars)"
    /\ Len(log[k + 1].detail) = IF Len(xml_text) < 500 THEN Len(xml_text) ELSE 500
    /\ \A m \in 1..Len(log[k + 1].detail) : log[k + 1].detail[m] = xml_text[m]

(* C9: safe_parse_xml gives the cleaned text to the parser exactly once.   *)
(* Either it returns the tree of the cleaned text, or the parse fails:     *)
(* then the first 500 characters of the text are logged with the error,    *)
(* ParseError is raised to the caller and no tree is returned.             *)
C9_TreeOrParseError ==
    safe_parse_xml_ended =>
        /\ parser_calls = <<clean_xml_response(response.text)>>
        /\ IF fromstring(parser_calls[1]).ok
           THEN /\ root = fromstring(parser_calls[1]).value
                /\ call_pc \in {"extract", "returned"}
                /\ \A k \in 1..Len(log) : log[k].msg # "XML Parse Error"
           ELSE /\ root = NoRoot
                /\ call_pc \in {"except", "returned"}
                /\ call_pc = "except" => raised = "ParseError"
                /\ ParseFailureLogged(1, response.text)

\* a parse failure on a response longer than 500 characters
C9_Witness ==
    /\ safe_parse_xml_ended
    /\ call_pc = "except"
    /\ raised = "ParseError"
    /\ Len(response.text) > 500
    /\ ParseFailureLogged(1, response.text)

\* the code points the cleaning is to strip
stripped_codes == (0..8) \cup {11, 12} \cup (14..31) \cup {127}

\* the tabs, line feeds and carriage returns of a text, in order
tab_lf_cr(s) == SelectSeq(s, LAMBDA c : Code[c] \in {9, 10, 13})

(* C10: the output of clean_xml_response holds no character of U+0000 to   *)
(* U+0008, U+000B, U+000C, U+000E to U+001F or U+007F, and the control     *)
(* character step removes no tab, line feed or carriage return.            *)
C10_ControlCharactersStripped ==
    xml_steps # <<>> =>
        /\ \A k \in 1..Len(parser_calls[1]) : Code[parser_calls[1][k]] \notin stripped_codes
        /\ tab_lf_cr(xml_steps[2]) = tab_lf_cr(xml_steps[1])
        /\ tab_lf_cr(xml_steps[2]) = tab_lf_cr(response.text)

\* a cleaned response that held a character to strip and a tab
C10_Witness ==
    /\ xml_steps # <<>>
    /\ \E k \in 1..Len(response.text) : Code[response.text[k]] \in stripped_codes
    /\ \E k \in 1..Len(response.text) : response.text[k] = "TAB"
    /\ \E k \in 1..Len(parser_calls[1]) : parser_calls[1][k] = "TAB"

-----------------------------------------------------------------------------
(* What the cleaning does to "&" *)

\* the number of positions of s that hold the character c
Count(s, c) == Cardinality({k \in 1..Len(s) : s[k] = c})

\* w occurs in s
Contains(s, w) == \E k \in 1..Len(s) : StartsWith(s, k, w)

(* C11: clean_xml_response escapes every "&" whatever follows it: the      *)
(* escaping step turns each "&" into "&amp;", in the output every "&" is   *)
(* followed by "amp;", an "&amp;" of the input comes out as "&amp;amp;",   *)
(* and cleaning a cleaned text that holds "&" changes it again.            *)
C11_AmpersandAlwaysEscaped ==
    xml_steps # <<>> =>
        /\ Count(xml_steps[3], "&") = Count(xml_steps[2], "&")
        /\ Len(xml_steps[3]) = Len(xml_steps[2]) + 4 * Count(xml_steps[2], "&")
        /\ \A k \in 1..Len(xml_steps[3]) :
              xml_steps[3][k] = "&" => StartsWith(xml_steps[3], k, Chars("&amp;"))
        /\ \A k \in 1..Len(parser_calls[1]) :
              parser_calls[1][k] = "&" => StartsWith(parser_calls[1], k, Chars("&amp;"))
        /\ Contains(response.text, Chars("&amp;"))
              => Contains(parser_calls[1], Chars("&amp;amp;"))
        /\ Contains(parser_calls[1], Chars("&"))
              => clean_xml_response(parser_calls[1]) # parser_calls[1]

\* a cleaned response that held an entity "&amp;" and a bare "&"
C11_Witness ==
    /\ xml_steps # <<>>
    /\ Contains(response.text, Chars("&amp;"))
    /\ Count(response.text, "&") = 2
    /\ Contains(parser_calls[1], Chars("&amp;amp;"))
-----------------------------------------------------------------------------
(* What the cleaning leaves of namespaces *)

\* the name that follows the "<" or "</" at position k of s
TagNameAt(s, k) ==
    LET from == IF StartsWith(s, k, Chars("</")) THEN k + 2 ELSE k + 1
        stop == Find(s, from, Alphabet \ name_chars)
    IN  SubSeq(s, from, (IF stop = 0 THEN Len(s) + 1 ELSE stop) - 1)

HasPrefixedName(s) == \E k \in 1..Len(s) : s[k] = "<" /\ colon(TagNameAt(s, k)) > 1

HasDeclaration(s) == Contains(s, Chars("xmlns:")) \/ Contains(s, Chars("xmlns="))

(* C12: when the response is a well-formed document, the text cleaned from it
   holds no element name with a namespace prefix, in an opening or in a
   closing tag, and no xmlns:prefix="..." or xmlns="..." declaration. *)
C12_NamespacesStripped ==
    (xml_steps # <<>> /\ fromstring(response.text).ok) =>
        /\ ~HasPrefixedName(parser_calls[1])
        /\ ~HasDeclaration(parser_calls[1])
-----------------------------------------------------------------------------
(* Which elements of the response give a record *)

\* the elements of a tree, each named by the positions that lead to it
RECURSIVE Paths(_)
Paths(elem) ==
    {<<>>} \cup UNION {{<<k>> \o p : p \in Paths(elem.children[k])} :
                          k \in 1..Len(elem.children)}

RECURSIVE NodeAt(_, _)
NodeAt(elem, p) == IF p = <<>> THEN elem ELSE NodeAt(elem.children[Head(p)], Tail(p))

\* document order: an element comes before its descendants and before what
\* follows it
Precedes(p, q) ==
    \/ Len(p) < Len(q) /\ SubSeq(q, 1, Len(p)) = p
    \/ \E i \in 1..Min(Len(p), Len(q)) :
          SubSeq(p, 1, i - 1) = SubSeq(q, 1, i - 1) /\ p[i] < q[i]

\* by parent in document order, then by position under the parent
PrecedesByParent(p, q) ==
    \/ Precedes(ButLast(p), ButLast(q))
    \/ ButLast(p) = ButLast(q) /\ Last(p) < Last(q)

TagPaths(tree, tag) == {p \in Paths(tree) : NodeAt(tree, p).tag = Chars(tag)}

ChildPaths(tree, tag) ==
    {p \in Paths(tree) : p # <<>> /\ NodeAt(tree, ButLast(p)).tag = Chars(tag)}

\* the text of the first child of elem with the tag, None without such a child
ChildText(elem, tag) ==
    IF \E k \in 1..Len(elem.children) : elem.children[k].tag = Chars(tag)
    THEN LET first == CHOOSE k \in 1..Len(elem.children) :
                          /\ elem.children[k].tag = Chars(tag)
                          /\ \A m \in 1..(k - 1) : elem.children[m].tag # Chars(tag)
         IN  elem.children[first].text
    ELSE None

IsLedgerRecord(r, elem) ==
    /\ DOMAIN r = {"Name", "GUID", "Parent", "OpeningBalance", "ClosingBalance"}
    /\ r.Name = ChildText(elem, "NAME")
    /\ r.GUID = ChildText(elem, "GUID")
    /\ r.Parent = ChildText(elem, "PARENT")
    /\ r.OpeningBalance = ChildText(elem, "OPENINGBALANCE")
    /\ r.ClosingBalance = ChildText(elem, "CLOSINGBALANCE")

LedgersReturned == call_pc = "returned" /\ called = "get_ledgers" /\ root # NoRoot

(* C13, as the specification states it: get_ledgers returns exactly one
   record for every LEDGER element of the response, at any depth and in
   document order, none for an element with another tag, and every field is
   the text of the element's child of that name, None without that child. *)
C13_OneRecordPerTaggedElement ==
    LedgersReturned =>
        LET P == TagPaths(root, "LEDGER")
        IN  /\ Len(returned) = Cardinality(P)
            /\ \A p \in P :
                  IsLedgerRecord(returned[1 + Cardinality({q \in P : Precedes(q, p)})],
                                 NodeAt(root, p))

(* C13, amended: get_ledgers returns exactly one record for every child
   element of a COLLECTION element of the response, whatever the tag of the
   child, ordered by collection and then by position in the collection; every
   field is the text of the child's first child of that name, None without
   one. *)
C13_OneRecordPerCollectionChild ==
    LedgersReturned =>
        LET P == ChildPaths(root, "COLLECTION")
        IN  /\ Len(returned) = Cardinality(P)
            /\ \A p \in P :
                  IsLedgerRecord(returned[1 + Cardinality({q \in P : PrecedesByParent(q, p)})],
                                 NodeAt(root, p))

\* three records for four LEDGER elements: one of the records is that of the
\* GROUP child of the collection
C13_Witness ==
    /\ LedgersReturned
    /\ Cardinality(TagPaths(root, "LEDGER")) = 4
    /\ Len(returned) = 3
    /\ returned[1].Name = Chars("A")
    /\ returned[3].Name = None
    /\ NodeAt(root, <<1, 3>>).tag = Chars("GROUP")
-----------------------------------------------------------------------------
(* Which ledger entries of the response give a record *)

IsEntryRecord(r, voucher, entry) ==
    /\ DOMAIN r = {"VoucherNumber", "VoucherDate", "VoucherType", "LedgerName",
                   "Amount", "Narration", "PartyLedgerName"}
    /\ r.VoucherNumber = ChildText(voucher, "VOUCHERNUMBER")
    /\ r.VoucherDate = ChildText(voucher, "DATE")
    /\ r.VoucherType = ChildText(voucher, "VOUCHERTYPENAME")
    /\ r.LedgerName = ChildText(entry, "LEDGERNAME")
    /\ r.Amount = ChildText(entry, "AMOUNT")
    /\ r.Narration = ChildText(entry, "NARRATION")
    /\ r.PartyLedgerName = ChildText(entry, "PARTYLEDGERNAME")

\* p is an element inside the element v
Encloses(v, p) == Len(v) < Len(p) /\ SubSeq(p, 1, Len(v)) = v

\* the pairs of a VOUCHER element and a LEDGERENTRY element inside it
EntriesOfVouchers(tree) ==
    {vp \in TagPaths(tree, "VOUCHER") \X TagPaths(tree, "LEDGERENTRY") :
        Encloses(vp[1], vp[2])}

\* by voucher in document order, then by entry in document order
PrecedesByVoucher(a, b) ==
    \/ Precedes(a[1], b[1])
    \/ a[1] = b[1] /\ Precedes(a[2], b[2])

EntriesReturned ==
    call_pc = "returned" /\ called = "get_voucher_entries" /\ root # NoRoot

(* C14, as the specification states it: get_voucher_entries returns exactly
   one record per LEDGERENTRY element of the response, and every record is
   that of an entry with the VOUCHERNUMBER, DATE and VOUCHERTYPENAME of a
   VOUCHER element that encloses the entry. *)
C14_OneRecordPerLedgerEntry ==
    EntriesReturned =>
        /\ Len(returned) = Cardinality(TagPaths(root, "LEDGERENTRY"))
        /\ \A k \in 1..Len(returned) :
              \E vp \in EntriesOfVouchers(root) :
                  IsEntryRecord(returned[k], NodeAt(root, vp[1]), NodeAt(root, vp[2]))

(* C14, amended: get_voucher_entries returns exactly one record per pair of
   a VOUCHER element and a LEDGERENTRY element inside it, ordered by voucher
   and then by entry, with the VOUCHERNUMBER, DATE and VOUCHERTYPENAME of
   that VOUCHER: an entry outside every VOUCHER gives no record, an entry
   inside nested VOUCHER elements gives one record per enclosing VOUCHER. *)
C14_OneRecordPerVoucherAndEntry ==
    EntriesReturned =>
        LET P == EntriesOfVouchers(root)
        IN  /\ Len(returned) = Cardinality(P)
            /\ \A vp \in P :
                  IsEntryRecord(returned[1 + Cardinality({b \in P : PrecedesByVoucher(b, vp)})],
                                NodeAt(root, vp[1]), NodeAt(root, vp[2]))

\* four LEDGERENTRY elements, two of them outside every VOUCHER and one inside
\* two nested VOUCHER elements: three records, two of them for the same entry
C14_Witness ==
    /\ EntriesReturned
    /\ Cardinality(TagPaths(root, "LEDGERENTRY")) = 4
    /\ Len(returned) = 3
    /\ returned[2].VoucherNumber = Chars("1")
    /\ returned[3].VoucherNumber = Chars("2")
    /\ returned[2].LedgerName = Chars("x")
    /\ returned[3].LedgerName = Chars("x")
-----------------------------------------------------------------------------
(* Python values: None, bool, int, float (mantissa * 10^exponent, the
   mantissa without trailing zeros), str (a sequence of characters), list and
   dict (a function from keys) *)

PyNone == [type |-> "NoneType"]
PyBool(b) == [type |-> "bool", bool |-> b]
PyInt(n) == [type |-> "int", int |-> n]
PyStr(s) == [type |-> "str", str |-> s]
PyList(xs) == [type |-> "list", items |-> xs]
PyDict(d) == [type |-> "dict", dict |-> d]
PySpecialFloat(name) == [type |-> "float", special |-> name]

RECURSIVE PyFloat(_, _)
PyFloat(m, e) ==
    IF m = 0 THEN [type |-> "float", mantissa |-> 0, exponent |-> 0]
    ELSE IF m % 10 = 0 THEN PyFloat(m \div 10, e + 1)
    ELSE [type |-> "float", mantissa |-> m, exponent |-> e]

Raise(exception) == [ok |-> FALSE, raises |-> exception]

\* bool(v)
truthy(v) ==
    CASE v.type = "NoneType" -> FALSE
      [] v.type = "bool" -> v.bool
      [] v.type = "int" -> v.int # 0
      [] v.type = "float" -> "special" \in DOMAIN v \/ v.mantissa # 0
      [] v.type = "str" -> v.str # <<>>
      [] v.type = "list" -> v.items # <<>>
      [] v.type = "dict" -> DOMAIN v.dict # {}

\* a or b
or(a, b) == IF truthy(a) THEN a ELSE b

\* dict.get(key, default)
get(d, key, default) == IF key \in DOMAIN d THEN d[key] ELSE default

\* the characters float() skips around the number
float_whitespace == {" ", "TAB", "LF", "VT", "FF", "CR"}

strip(s) ==
    LET inside == {k \in 1..Len(s) : s[k] \notin float_whitespace}
    IN  IF inside = {} THEN <<>>
        ELSE SubSeq(s, CHOOSE k \in inside : \A m \in inside : k <= m,
                       CHOOSE k \in inside : \A m \in inside : m <= k)

\* str.lower() within ASCII
lower(s) ==
    [k \in 1..Len(s) |->
        IF Code[s[k]] \in 65..90
        THEN CHOOSE c \in Alphabet : Code[c] = Code[s[k]] + 32
        ELSE s[k]]

\* digits with single underscores between them
digitpart(d) ==
    /\ d # <<>>
    /\ AllIn(d, digits \cup {"_"})
    /\ d[1] \in digits
    /\ d[Len(d)] \in digits
    /\ \A k \in 1..(Len(d) - 1) : ~(d[k] = "_" /\ d[k + 1] = "_")

only_digits(d) == SelectSeq(d, LAMBDA c : c \in digits)

RECURSIVE int_of(_)
int_of(ds) == IF ds = <<>> THEN 0 ELSE 10 * int_of(ButLast(ds)) + (Code[Last(ds)] - 48)

signed(s) == s # <<>> /\ s[1] \in {"+", "-"}
unsigned(s) == IF signed(s) THEN Tail(s) ELSE s
sign_of(s) == IF s # <<>> /\ s[1] = "-" THEN -1 ELSE 1

\* float(s) for a str: optional white space around an optional sign and
\* inf, infinity, nan or a decimal literal with optional fraction and exponent
float_of_number(sign, mant, expo, has_exp) ==
    LET dot == Find(mant, 1, {"."})
        ip == IF dot = 0 THEN mant ELSE SubSeq(mant, 1, dot - 1)
        fp == IF dot = 0 THEN <<>> ELSE SubSeq(mant, dot + 1, Len(mant))
    IN  IF /\ ip = <<>> \/ digitpart(ip)
           /\ fp = <<>> \/ digitpart(fp)
           /\ ip # <<>> \/ fp # <<>>
           /\ has_exp => digitpart(unsigned(expo))
        THEN Ok(PyFloat(sign * int_of(only_digits(ip) \o only_digits(fp)),
                        (IF has_exp THEN sign_of(expo) * int_of(only_digits(unsigned(expo)))
                         ELSE 0) - Len(only_digits(fp))))
        ELSE Raise("ValueError")

float_of_str(s) ==
    LET u == unsigned(strip(s))
        at == Find(u, 1, {"e", "E"})
    IN  IF lower(u) \in {Chars("inf"), Chars("infinity")}
        THEN Ok(PySpecialFloat(IF sign_of(strip(s)) = 1 THEN "inf" ELSE "-inf"))
        ELSE IF lower(u) = Chars("nan") THEN Ok(PySpecialFloat("nan"))
        ELSE float_of_number(sign_of(strip(s)),
                             IF at = 0 THEN u ELSE SubSeq(u, 1, at - 1),
                             IF at = 0 THEN <<>> ELSE SubSeq(u, at + 1, Len(u)),
                             at # 0)

\* float(v)
float(v) ==
    CASE v.type = "float" -> Ok(v)
      [] v.type = "int" -> Ok(PyFloat(v.int, 0))
      [] v.type = "bool" -> Ok(PyFloat(IF v.bool THEN 1 ELSE 0, 0))
      [] v.type = "str" -> float_of_str(v.str)
      [] OTHER -> Raise("TypeError")
-----------------------------------------------------------------------------
(* Mapping the extracted records to the columns of the destination *)

MaxRecords == 2

user_id == PyStr(Chars("faa3bf60-717e-4dd8-8159-e9dc1fe9b8d0"))
COMPANY_NAME == PyStr(Chars("SKM IMPEX-CHENNAI-(24-25)"))

\* record.get(key, '')
text(rec, key) == get(rec, key, PyStr(<<>>))

\* float(record.get(key, 0) or 0)
amount(rec, key) == float(or(get(rec, key, PyInt(0)), PyInt(0)))

\* the body of the for loop of map_tally_to_supabase_schema: the mapped
\* rec, or the exception of the first cast that fails
mapped_record(rec, table_name) ==
    CASE table_name = "tally_companies" ->
            Ok([user_id |-> user_id,
                company_name |-> text(rec, "Name"),
                company_path |-> text(rec, "GUID"),
                company_email |-> text(rec, "Email"),
                company_phone |-> text(rec, "Phone"),
                company_address |-> text(rec, "State"),
                company_tax_number |-> text(rec, "CompanyNumber")])
      [] table_name = "tally_divisions" ->
            Ok([user_id |-> user_id,
                company_name |-> text(rec, "CompanyName"),
                division_name |-> text(rec, "Name"),
                division_path |-> text(rec, "GUID"),
                division_type |-> text(rec, "Category")])
      [] table_name = "tally_groups" ->
            Ok([user_id |-> user_id,
                company_name |-> text(rec, "CompanyName"),
                group_name |-> text(rec, "Name"),
                group_path |-> text(rec, "GUID"),
                group_parent |-> text(rec, "Parent")])
      [] table_name = "tally_ledgers" ->
            LET opening == amount(rec, "OpeningBalance")
                closing == amount(rec, "ClosingBalance")
            IN  IF ~opening.ok THEN opening
                ELSE IF ~closing.ok THEN closing
                ELSE Ok([user_id |-> user_id,
                         company_name |-> text(rec, "CompanyName"),
                         ledger_name |-> text(rec, "Name"),
                         ledger_path |-> text(rec, "GUID"),
                         ledger_parent |-> text(rec, "Parent"),
                         ledger_opening_balance |-> opening.value,
                         ledger_closing_balance |-> closing.value])
      [] table_name = "tally_vouchers" ->
            LET cast == amount(rec, "Amount")
            IN  IF ~cast.ok THEN cast
                ELSE Ok([user_id |-> user_id,
                         company_name |-> text(rec, "CompanyName"),
                         voucher_number |-> text(rec, "VoucherNumber"),
                         voucher_date |-> text(rec, "Date"),
                         voucher_type |-> text(rec, "VoucherTypeName"),
                         voucher_narration |-> text(rec, "Narration"),
                         voucher_reference |-> text(rec, "Reference"),
                         voucher_amount |-> cast.value])
      [] table_name = "tally_voucher_entries" ->
            LET cast == amount(rec, "Amount")
            IN  IF ~cast.ok THEN cast
                ELSE Ok([user_id |-> user_id,
                         company_name |-> text(rec, "CompanyName"),
                         voucher_number |-> text(rec, "VoucherNumber"),
                         voucher_date |-> text(rec, "VoucherDate"),
                         voucher_type |-> text(rec, "VoucherType"),
                         ledger_name |-> text(rec, "LedgerName"),
                         amount |-> cast.value,
                         narration |-> text(rec, "Narration"),
                         party_ledger_name |-> text(rec, "PartyLedgerName")])
      [] OTHER -> Ok([user_id |-> user_id])

\* the list of the mapped records, or the exception that ends the loop
map_tally_to_supabase_schema(tally_records, table_name) ==
    LET each == [k \in 1..Len(tally_records) |-> mapped_record(tally_records[k], table_name)]
        failed == {k \in 1..Len(each) : ~each[k].ok}
    IN  IF failed = {} THEN Ok([k \in 1..Len(each) |-> each[k].value])
        ELSE each[CHOOSE k \in failed : \A m \in failed : k <= m]

map_voucher_entry_to_supabase(entry, voucher_data) ==
    LET cast == amount(entry, "Amount")
    IN  IF ~cast.ok THEN cast
        ELSE Ok([user_id |-> user_id,
                 company_name |-> COMPANY_NAME,
                 voucher_number |-> text(entry, "VoucherNumber"),
                 voucher_date |-> text(voucher_data, "Date"),
                 voucher_type |-> text(voucher_data, "VoucherTypeName"),
                 ledger_name |-> text(entry, "LedgerName"),
                 amount |-> cast.value,
                 narration |-> text(entry, "Narration"),
                 party_ledger_name |-> text(entry, "PartyLedgerName")])

\* ---- the records given to the mapping: what findtext gave for each key (a
\* text or None), with keys that may be missing

Missing == [type |-> "missing"]

dict_of(items) == [key \in {k \in DOMAIN items : items[k] # Missing} |-> items[key]]

Amounts ==
    {Missing, PyNone, PyStr(<<>>), PyStr(Chars("100.50")), PyStr(Chars(" -7")),
     PyStr(Chars("1,000.00"))}

Texts(s) == {Missing, PyNone, PyStr(Chars(s))}

mapped_tables ==
    {"tally_companies", "tally_divisions", "tally_groups", "tally_ledgers",
     "tally_vouchers", "tally_voucher_entries"}

TallyRecords(table_name) ==
    CASE table_name = "tally_ledgers" ->
            {dict_of([Name |-> PyStr(Chars("Cash")), OpeningBalance |-> a, ClosingBalance |-> b]) :
                a \in Amounts, b \in Amounts}
      [] table_name = "tally_vouchers" ->
            {dict_of([VoucherNumber |-> t, Amount |-> a]) : t \in Texts("1"), a \in Amounts}
      [] table_name = "tally_voucher_entries" ->
            {dict_of([LedgerName |-> t, Amount |-> a]) : t \in Texts("Cash"), a \in Amounts}
      [] OTHER -> {dict_of([Name |-> t]) : t \in Texts("Acme")}

Lists(S) == UNION {[1..n -> S] : n \in 0..MaxRecords}

VoucherData == {dict_of([VoucherNumber |-> PyStr(Chars("1")), Date |-> t]) : t \in Texts("20240401")}

\* map_tally_to_supabase_schema(tally_data, table_name) is called and ends
MapTallyToSupabaseSchema ==
    /\ step = "idle"
    /\ \E table_name \in mapped_tables :
          \E tally_records \in Lists(TallyRecords(table_name)) :
              /\ invoked' = [fn |-> "map_tally_to_supabase_schema",
                             args |-> <<tally_records, table_name>>]
              /\ outcome' = map_tally_to_supabase_schema(tally_records, table_name)
    /\ step' = "returned"
    /\ UNCHANGED sent
    /\ UNCHANGED <<syncVars, xmlVars, moreVars>>

\* map_voucher_entry_to_supabase(entry, voucher_data) is called and ends
MapVoucherEntryToSupabase ==
    /\ step = "idle"
    /\ \E entry \in TallyRecords("tally_voucher_entries"), voucher_data \in VoucherData :
          /\ invoked' = [fn |-> "map_voucher_entry_to_supabase",
                         args |-> <<entry, voucher_data>>]
          /\ outcome' = map_voucher_entry_to_supabase(entry, voucher_data)
    /\ step' = "returned"
    /\ UNCHANGED sent
    /\ UNCHANGED <<syncVars, xmlVars, moreVars>>

InitMap == SyncIdle /\ XmlIdle /\ LibIdle /\ MoreIdle

NextMap == MapTallyToSupabaseSchema \/ MapVoucherEntryToSupabase

SpecMap == InitMap /\ [][NextMap]_vars

\* the destination column and the source key of every amount field
amount_fields(table_name) ==
    CASE table_name = "tally_ledgers" ->
            {<<"ledger_opening_balance", "OpeningBalance">>,
             <<"ledger_closing_balance", "ClosingBalance">>}
      [] table_name = "tally_vouchers" -> {<<"voucher_amount", "Amount">>}
      [] table_name = "tally_voucher_entries" -> {<<"amount", "Amount">>}
      [] OTHER -> {}

\* the number a value stands for, 0 when it is missing, empty or no number
NumberOrZero(rec, key) ==
    LET v == get(rec, key, PyNone)
    IN  IF v.type = "str" /\ float_of_str(v.str).ok
        THEN float_of_str(v.str).value
        ELSE PyFloat(0, 0)

AmountsCast(mapped, rec, table_name) ==
    \A f \in amount_fields(table_name) : mapped[f[1]] = NumberOrZero(rec, f[2])

(* C15: the mapping to the destination schema never ends with an exception,
   and every amount field of a mapped record is the number its source value
   stands for, or 0 when that value is absent, empty or not a valid number. *)
C15_AmountsCastOrZero ==
    /\ (step = "returned" /\ invoked.fn = "map_tally_to_supabase_schema") =>
          /\ outcome.ok
          /\ \A k \in 1..Len(invoked.args[1]) :
                AmountsCast(outcome.value[k], invoked.args[1][k], invoked.args[2])
    /\ (step = "returned" /\ invoked.fn = "map_voucher_entry_to_supabase") =>
          /\ outcome.ok
          /\ AmountsCast(outcome.value, invoked.args[1], "tally_voucher_entries")
-----------------------------------------------------------------------------
(* datetime.fromisoformat, as Python 3.11 reads a text without week dates *)

\* what the scan reads where the text has ended
EndOfText == "NUL"

DateTime(y, mo, d, h, mi, s) ==
    [year |-> y, month |-> mo, day |-> d, hour |-> h, minute |-> mi, second |-> s]

two_digits(s, p) == p + 1 <= Len(s) /\ s[p] \in digits /\ s[p + 1] \in digits

days_in_month(year, month) ==
    IF month = 2
    THEN IF year % 4 = 0 /\ (year % 100 # 0 \/ year % 400 = 0) THEN 29 ELSE 28
    ELSE IF month \in {4, 6, 9, 11} THEN 30 ELSE 31

\* YYYY-MM-DD or YYYYMMDD at the start of s: <<year, month, day>>
parse_isoformat_date(s) ==
    IF ~(Len(s) >= 4 /\ AllIn(SubSeq(s, 1, 4), digits)) THEN Raise("ValueError")
    ELSE LET uses_separator == Len(s) > 4 /\ s[5] = "-"
             month_at == IF uses_separator THEN 6 ELSE 5
             day_at == IF uses_separator THEN 9 ELSE 7
         IN  IF /\ two_digits(s, month_at)
                /\ uses_separator => (Len(s) >= 8 /\ s[8] = "-")
                /\ two_digits(s, day_at)
             THEN Ok(<<int_of(SubSeq(s, 1, 4)), int_of(SubSeq(s, month_at, month_at + 1)),
                       int_of(SubSeq(s, day_at, day_at + 1))>>)
             ELSE Raise("ValueError")

\* the character at position p of a part of the text that is followed by the
\* character after
char_at(part, after, p) ==
    IF p <= Len(part) THEN part[p] ELSE IF p = Len(part) + 1 THEN after ELSE EndOfText

\* the hour, minute and second read, and whether something is left to read
Fields(vals, more) ==
    [ok |-> TRUE, more |-> more,
     fields |-> [k \in 1..3 |-> IF k <= Len(vals) THEN vals[k] ELSE 0]]

\* the digits of the fraction, from position p of the part
parse_fraction(part, after, p, vals) ==
    LET to_parse == Min(6, Len(part) - p + 1)
        stop == Find(part, p + to_parse, Alphabet \ digits)
    IN  IF ~AllIn(SubSeq(part, p, p + to_parse - 1), digits) THEN Raise("ValueError")
        ELSE Fields(vals, (IF stop = 0 THEN after ELSE part[stop]) # EndOfText)

\* HH[:MM[:SS[.fff]]] or HH[MM[SS[.fff]]] from position p of the part, the i-th
\* of the three numbers first
RECURSIVE parse_hh_mm_ss_ff(_, _, _, _, _, _)
parse_hh_mm_ss_ff(part, after, i, p, separated, vals) ==
    IF i = 3 THEN parse_fraction(part, after, p, vals)
    ELSE IF ~(char_at(part, after, p) \in digits /\ char_at(part, after, p + 1) \in digits)
    THEN Raise("ValueError")
    ELSE LET read == Append(vals, int_of(<<part[p], part[p + 1]>>))
             c == char_at(part, after, p + 2)
             has_separator == IF i = 0 THEN c = ":" ELSE separated
         IN  IF p + 3 > Len(part) THEN Fields(read, c # EndOfText)
             ELSE IF (has_separator /\ c = ":") \/ (~has_separator /\ c \notin {".", ","})
             THEN parse_hh_mm_ss_ff(part, after, i + 1,
                                    IF has_separator THEN p + 3 ELSE p + 2,
                                    has_separator, read)
             ELSE IF c \in {".", ","} THEN parse_fraction(part, after, p + 3, read)
             ELSE Raise("ValueError")

seconds_of(f) == f[1] * 3600 + f[2] * 60 + f[3]

\* the time after the separator: <<hour, minute, second>>
parse_isoformat_time(t) ==
    LET tzinfo_pos == Find(t, 1, {"Z", "+", "-"})
        hms == parse_hh_mm_ss_ff(IF tzinfo_pos = 0 THEN t ELSE SubSeq(t, 1, tzinfo_pos - 1),
                                  IF tzinfo_pos = 0 THEN EndOfText ELSE t[tzinfo_pos],
                                  0, 1, TRUE, <<>>)
        tz == parse_hh_mm_ss_ff(SubSeq(t, tzinfo_pos + 1, Len(t)), EndOfText,
                                    0, 1, TRUE, <<>>)
    IN  IF t = <<>> \/ ~hms.ok THEN Raise("ValueError")
        ELSE IF tzinfo_pos = 0
        THEN IF hms.more THEN Raise("ValueError") ELSE Ok(hms.fields)
        ELSE IF t[tzinfo_pos] = "Z"
        THEN IF tzinfo_pos = Len(t) THEN Ok(hms.fields) ELSE Raise("ValueError")
        ELSE IF tz.ok /\ ~tz.more /\ seconds_of(tz.fields) < 86400
        THEN Ok(hms.fields)
        ELSE Raise("ValueError")

\* datetime.fromisoformat(s)
fromisoformat(s) ==
    IF Len(s) < 7 THEN Raise("ValueError")
    ELSE LET separator == IF Len(s) = 7 THEN 7 ELSE IF s[5] = "-" THEN 10 ELSE 8
             date == parse_isoformat_date(s)
             time == IF Len(s) > separator
                     THEN parse_isoformat_time(SubSeq(s, separator + 2, Len(s)))
                     ELSE Ok(<<0, 0, 0>>)
         IN  IF /\ date.ok
                /\ time.ok
                /\ date.value[1] >= 1
                /\ date.value[2] \in 1..12
                /\ date.value[3] \in 1..days_in_month(date.value[1], date.value[2])
                /\ time.value[1] <= 23
                /\ time.value[2] <= 59
                /\ time.value[3] <= 59
             THEN Ok(DateTime(date.value[1], date.value[2], date.value[3],
                              time.value[1], time.value[2], time.value[3]))
             ELSE Raise("ValueError")

-----------------------------------------------------------------------------
(* Schema inference: SupabaseManager.infer_data_type and
   analyze_data_structure, TallySupabaseSync.infer_field_type *)

\* isinstance(value, cls): a bool is an int as well
isinstance(value, cls) == value.type = cls \/ (cls = "int" /\ value.type = "bool")

\* datetime.fromisoformat(value.replace('Z', '+00:00')) does not raise
parses_as_datetime(value) == fromisoformat(replace(value.str, "Z", Chars("+00:00"))).ok

infer_data_type(value) ==
    IF value.type = "NoneType" THEN "TEXT"
    ELSE IF isinstance(value, "bool") THEN "BOOLEAN"
    ELSE IF isinstance(value, "int") THEN "INTEGER"
    ELSE IF isinstance(value, "float") THEN "NUMERIC"
    ELSE IF isinstance(value, "str")
    THEN IF parses_as_datetime(value) THEN "TIMESTAMP WITH TIME ZONE" ELSE "TEXT"
    ELSE IF isinstance(value, "list") \/ isinstance(value, "dict") THEN "JSONB"
    ELSE "TEXT"

infer_field_type(value) ==
    IF value.type = "NoneType" THEN "TEXT"
    ELSE IF isinstance(value, "bool") THEN "BOOLEAN"
    ELSE IF isinstance(value, "int") THEN "INTEGER"
    ELSE IF isinstance(value, "float") THEN "NUMERIC"
    ELSE IF isinstance(value, "str")
    THEN IF parses_as_datetime(value) THEN "TIMESTAMP WITH TIME ZONE" ELSE "TEXT"
    ELSE IF isinstance(value, "list") \/ isinstance(value, "dict") THEN "JSONB"
    ELSE "TEXT"

\* the columns taken from the last record
analyze_last_record(data) ==
    IF data = <<>> THEN <<>>
    ELSE LET sample == data[Len(data)]
         IN  [k \in 1..Len(sample) |->
                 [name |-> sample[k][1], type |-> infer_data_type(sample[k][2]),
                  nullable |-> TRUE]]

\* a record is the sequence of its items, <<field_name, value>>, in the
\* order of the dict
analyze_data_structure(data) ==
    IF data = <<>> THEN <<>>
    ELSE LET sample == data[1]
         IN  [k \in 1..Len(sample) |->
                 [name |-> sample[k][1], type |-> infer_data_type(sample[k][2]),
                  nullable |-> TRUE]]

\* ---- the values given to the inference

MaxParts == 3

IsoParts ==
    {Chars("2024-01-01"), Chars("2024-01-01T00:00"), Chars(":00"), Chars("Z"),
     Chars("+05:30"), Chars("x"), Chars("20240401")}

IsoTexts == {Flatten(parts) : parts \in UNION {[1..n -> IsoParts] : n \in 0..MaxParts}}

InferredValues ==
    {PyNone, PyBool(TRUE), PyBool(FALSE), PyInt(0), PyInt(1), PyFloat(15, -1),
     PyList(<<>>), PyList(<<PyInt(1)>>), PyDict(<<>>), PyDict(<<<<"a", PyInt(1)>>>>)}
        \cup {PyStr(t) : t \in IsoTexts}

SampleValues == {PyNone, PyBool(TRUE), PyInt(1), PyStr(Chars("2024-01-01T00:00:00Z"))}

SampleRecords ==
    {<<>>}
        \cup {<<<<n, v>>>> : n \in {"a", "b"}, v \in SampleValues}
        \cup {<<<<"a", v>>, <<"b", w>>>> : v \in SampleValues, w \in SampleValues}
        \cup {<<<<"b", v>>, <<"a", w>>>> : v \in SampleValues, w \in SampleValues}

\* infer_data_type(value) is called and ends
InferDataType ==
    /\ step = "idle"
    /\ \E value \in InferredValues :
          /\ invoked' = [fn |-> "infer_data_type", args |-> <<value>>]
          /\ outcome' = Ok(infer_data_type(value))
    /\ step' = "returned"
    /\ UNCHANGED sent
    /\ UNCHANGED <<syncVars, xmlVars, moreVars>>

\* infer_field_type(value) is called and ends
InferFieldType ==
    /\ step = "idle"
    /\ \E value \in InferredValues :
          /\ invoked' = [fn |-> "infer_field_type", args |-> <<value>>]
          /\ outcome' = Ok(infer_field_type(value))
    /\ step' = "returned"
    /\ UNCHANGED sent
    /\ UNCHANGED <<syncVars, xmlVars, moreVars>>

\* analyze_data_structure(data) is called and ends
AnalyzeDataStructure ==
    /\ step = "idle"
    /\ \E data \in Lists(SampleRecords) :
          /\ invoked' = [fn |-> "analyze_data_structure", args |-> <<data>>]
          /\ outcome' = Ok(analyze_data_structure(data))
    /\ step' = "returned"
    /\ UNCHANGED sent
    /\ UNCHANGED <<syncVars, xmlVars, moreVars>>

InitSchema == SyncIdle /\ XmlIdle /\ LibIdle /\ MoreIdle

NextSchema == InferDataType \/ InferFieldType \/ AnalyzeDataStructure

SpecSchema == InitSchema /\ [][NextSchema]_vars

\* the text is accepted by the parser of ISO 8601 datetimes as it stands, or
\* it ends with Z and is accepted with +00:00 in the place of that Z
ParsesAsIso(s) ==
    \/ fromisoformat(s).ok
    \/ s # <<>> /\ Last(s) = "Z" /\ fromisoformat(ButLast(s) \o Chars("+00:00")).ok

TypeInferred == step = "returned" /\ invoked.fn \in {"infer_data_type", "infer_field_type"}

(* C16: the type inferred is TEXT for None, BOOLEAN for a bool, INTEGER for
   an int, NUMERIC for a float, JSONB for a list or a dict; for a str it is
   TIMESTAMP WITH TIME ZONE exactly when the text parses as an ISO 8601
   datetime, a trailing Z tolerated, and TEXT otherwise. *)
C16_TypeOfEveryValue ==
    TypeInferred =>
        LET value == invoked.args[1]
        IN  outcome.value =
                CASE value.type = "NoneType" -> "TEXT"
                  [] value.type = "bool" -> "BOOLEAN"
                  [] value.type = "int" -> "INTEGER"
                  [] value.type = "float" -> "NUMERIC"
                  [] value.type \in {"list", "dict"} -> "JSONB"
                  [] value.type = "str" ->
                        IF ParsesAsIso(value.str) THEN "TIMESTAMP WITH TIME ZONE"
                        ELSE "TEXT"

Analyzed == step = "returned" /\ invoked.fn = "analyze_data_structure"

(* C17: the columns analyze_data_structure returns are those of the first
   record alone: one column per field of the first record, in its order, with
   the type inferred from the value the first record holds, whatever the later
   records contain; a field that only a later record has gets no column. *)
C17_ColumnsOfFirstRecord ==
    (Analyzed /\ invoked.args[1] # <<>>) =>
        LET first == invoked.args[1][1]
        IN  /\ Len(outcome.value) = Len(first)
            /\ \A k \in 1..Len(first) :
                  /\ outcome.value[k].name = first[k][1]
                  /\ outcome.value[k].type = infer_data_type(first[k][2])
            /\ outcome.value = analyze_data_structure(<<first>>)

\* [{"a": 1}, {"a": "2024-01-01T00:00:00Z", "b": 1}]: column a is INTEGER and
\* there is no column b
C17_Witness ==
    /\ Analyzed
    /\ invoked.args[1] = <<<<<<"a", PyInt(1)>>>>,
                           <<<<"a", PyStr(Chars("2024-01-01T00:00:00Z"))>>, <<"b", PyInt(1)>>>>>>
    /\ outcome.value = <<[name |-> "a", type |-> "INTEGER", nullable |-> TRUE]>>
    /\ infer_data_type(PyStr(Chars("2024-01-01T00:00:00Z"))) = "TIMESTAMP WITH TIME ZONE"

-----------------------------------------------------------------------------
(* The HTTP API over Tally: the endpoints of simple_tally_api.py, and       *)
(* /companies of tally_rest_api.py                                          *)

\* JSONResponse(content, status_code), and what FastAPI answers for a dict
\* returned or an HTTPException raised
JSONResponse(content, status_code) == [status_code |-> status_code, content |-> content]

\* a JSON array, and a JSON object as the sequence of its <<key, value>>
json_array(items) == [json |-> "array", items |-> items]
json_object(members) == [json |-> "object", members |-> members]

\* str(e), kept as the name of the exception
exception_text(exception) == <<exception>>

\* the except block of an endpoint, answering with the default status
error_response_ok(exception) ==
    JSONResponse(json_object(<<<<"error", exception_text(exception)>>>>), 200)

\* the except block of an endpoint of simple_tally_api.py
error_response(exception) ==
    JSONResponse(json_object(<<<<"error", exception_text(exception)>>>>), 500)

\* the endpoints of simple_tally_api.py that ask Tally, by the extraction
\* they run, and the path of each
simple_endpoints ==
    {"get_companies", "get_divisions", "get_ledgers", "get_groups", "get_vouchers"}

path(call) ==
    CASE call = "get_companies" -> "/companies"
      [] call = "get_divisions" -> "/divisions/{company_name}"
      [] call = "get_ledgers" -> "/ledgers/{company_name}"
      [] call = "get_groups" -> "/groups/{company_name}"
      [] call = "get_vouchers" -> "/vouchers/{company_name}"
      [] call = "get_voucher_entries" -> "/voucher-entries/{company_name}"

\* requests.post without raise_for_status: an answer with an error status
\* is a response like any other
posted(call) == {r \in Responses(call) : r.raises # "HTTPError"}

\* an endpoint of simple_tally_api.py that asks Tally, given what the
\* request gives
simple_tally_api(call, resp) ==
    IF resp.raises # "none" THEN error_response(resp.raises)
    ELSE LET parsed == fromstring(clean_xml_response(resp.text))
         IN  IF ~parsed.ok THEN error_response("ParseError")
             ELSE JSONResponse(json_array(extract(call, parsed.value)), 200)

\* /voucher-entries/{company_name} of simple_tally_api.py
simple_voucher_entries(company_name) ==
    JSONResponse(json_object(<<<<"message", Chars("Voucher entries are embedded within voucher data.")>>,
                               <<"company", company_name>>,
                               <<"note", Chars("For detailed ledger entries, use the /vouchers endpoint")>>>>),
                 200)

\* expat: a control character other than TAB, LF and CR is no character of
\* a document
not_well_formed(xml_text) ==
    \E k \in 1..Len(xml_text) :
        xml_text[k] \in Range(C0Controls) \ {"TAB", "LF", "CR"}

\* make_tally_request of tally_rest_api.py: the root parsed from the text as
\* it came, or the HTTPException raised
HTTPException(status_code, detail) ==
    [ok |-> FALSE, raises |-> "HTTPException", status_code |-> status_code, detail |-> detail]

make_tally_request(resp) ==
    IF resp.raises # "none"
    THEN HTTPException(503, exception_text(resp.raises))
    ELSE LET parsed == IF not_well_formed(resp.text) THEN ParseError
                       ELSE fromstring(resp.text)
         IN  IF ~parsed.ok THEN HTTPException(500, exception_text("ParseError"))
             ELSE Ok(parsed.value)

rest_company_fields ==
    <<"NAME", "GUID", "EMAIL", "STATE", "PINCODE", "PHONE", "COMPANYNUMBER",
      "ADDRESS", "COUNTRY", "CURRENCYNAME", "BOOKSBEGINFROM", "FAXNUMBER",
      "MOBILENUMBER", "WEBSITE">>

\* company_data: the fields that have a text, under the lower-case key
company_data(comp) ==
    Flatten([k \in 1..Len(rest_company_fields) |->
        LET value == findtext(comp, Chars(rest_company_fields[k]))
        IN  IF value # None /\ value # <<>>
            THEN <<<<lower(Chars(rest_company_fields[k])), value>>>>
            ELSE <<>>])

\* /companies of tally_rest_api.py; FastAPI answers an HTTPException with
\* its status and {"detail": ...}
rest_get_companies(resp) ==
    LET made == make_tally_request(resp)
    IN  IF ~made.ok
        THEN JSONResponse(json_object(<<<<"detail", made.detail>>>>), 500)
        ELSE LET cs == iter(made.value, Chars("COLLECTION"))
                 companies ==
                     Flatten([c \in 1..Len(cs) |->
                         Flatten([k \in 1..Len(cs[c].children) |->
                             LET data == company_data(cs[c].children[k])
                             IN  IF data # <<>> THEN <<data>> ELSE <<>>])])
             IN  JSONResponse(json_object(<<<<"companies", json_array(companies)>>,
                                            <<"count", Len(companies)>>>>), 200)

CompanyNames == {Chars("Acme"), Chars("SKM IMPEX")}

\* GET on an endpoint of simple_tally_api.py that asks Tally
SimpleTallyApi(call) ==
    /\ step = "idle"
    /\ \E company_name \in CompanyNames, resp \in posted(call) :
          /\ invoked' = [fn |-> "simple_tally_api", path |-> path(call), call |-> call,
                         args |-> <<company_name>>, answer |-> resp]
          /\ outcome' = Ok(simple_tally_api(call, resp))
    /\ sent' = <<path(call)>>
    /\ step' = "returned"
    /\ UNCHANGED <<syncVars, xmlVars, moreVars>>

\* GET /voucher-entries/{company_name} of simple_tally_api.py: nothing is
\* asked of Tally
SimpleVoucherEntries ==
    /\ step = "idle"
    /\ \E company_name \in CompanyNames :
          /\ invoked' = [fn |-> "simple_tally_api", path |-> path("get_voucher_entries"),
                         call |-> "get_voucher_entries", args |-> <<company_name>>,
                         answer |-> NoResponseYet]
          /\ outcome' = Ok(simple_voucher_entries(company_name))
    /\ sent' = <<>>
    /\ step' = "returned"
    /\ UNCHANGED <<syncVars, xmlVars, moreVars>>

\* GET /companies of tally_rest_api.py
RestGetCompanies ==
    /\ step = "idle"
    /\ \E resp \in Responses("get_companies") :
          /\ invoked' = [fn |-> "tally_rest_api", path |-> "/companies", call |-> "get_companies",
                         args |-> <<>>, answer |-> resp]
          /\ outcome' = Ok(rest_get_companies(resp))
    /\ sent' = <<"/companies">>
    /\ step' = "returned"
    /\ UNCHANGED <<syncVars, xmlVars, moreVars>>

InitApi == SyncIdle /\ XmlIdle /\ LibIdle /\ MoreIdle

NextApi ==
    \/ \E call \in simple_endpoints : SimpleTallyApi(call)
    \/ SimpleVoucherEntries
    \/ RestGetCompanies

SpecApi == InitApi /\ [][NextApi]_vars

Answered == step = "returned" /\ invoked.fn \in {"simple_tally_api", "tally_rest_api"}

\* the body is a JSON object with exactly these keys, in this order
ObjectOf(content, keys) ==
    /\ content.json = "object"
    /\ [k \in 1..Len(content.members) |-> content.members[k][1]] = keys

ArrayWith200(r) == r.status_code = 200 /\ r.content.json = "array"

ErrorWith500(r) == r.status_code = 500 /\ ObjectOf(r.content, <<"error">>)

(* C18 as stated: every data endpoint answers with status 200 and a JSON
   array of records, or with status 500 and a JSON object {"error": ...}. *)
C18_ArrayOrError ==
    Answered => ArrayWith200(outcome.value) \/ ErrorWith500(outcome.value)

(* C18: of simple_tally_api.py, /companies, /divisions, /ledgers, /groups
   and /vouchers answer with status 200 and the JSON array of the records
   extracted, or, when the request raised or the text did not parse, with
   status 500 and {"error": ...}; /voucher-entries always answers with status
   200 and a JSON object with the keys message, company, note, and asks
   nothing of Tally.  /companies of tally_rest_api.py answers with status 200
   and the object {"companies": [...], "count": n}, n the number of
   companies, or with status 500 and {"detail": ...}. *)
C18_AnswerOfEachEndpoint ==
    Answered =>
        LET r == outcome.value
        IN  IF invoked.fn = "tally_rest_api"
            THEN \/ /\ r.status_code = 200
                    /\ ObjectOf(r.content, <<"companies", "count">>)
                    /\ r.content.members[1][2].json = "array"
                    /\ r.content.members[2][2] = Len(r.content.members[1][2].items)
                    /\ invoked.answer.raises = "none"
                 \/ /\ r.status_code = 500
                    /\ ObjectOf(r.content, <<"detail">>)
            ELSE IF invoked.call = "get_voucher_entries"
            THEN /\ r.status_code = 200
                 /\ ObjectOf(r.content, <<"message", "company", "note">>)
                 /\ r.content.members[2][2] = invoked.args[1]
                 /\ sent = <<>>
            ELSE LET parsed == fromstring(clean_xml_response(invoked.answer.text))
                     failed == invoked.answer.raises # "none" \/ ~parsed.ok
                 IN  /\ failed => ErrorWith500(r)
                     /\ ~failed => ArrayWith200(r) /\ r.content.items = extract(invoked.call, parsed.value)

\* /voucher-entries answered with its note, and not with an array
C18_Witness ==
    /\ Answered
    /\ invoked.call = "get_voucher_entries"
    /\ outcome.value.status_code = 200
    /\ outcome.value.content.json = "object"

\* an endpoint answered 500 with {"error": ...} for a text that is no XML
C18_ErrorWitness ==
    /\ Answered
    /\ invoked.fn = "simple_tally_api"
    /\ invoked.answer.raises = "none"
    /\ ErrorWith500(outcome.value)

-----------------------------------------------------------------------------
(* Calls that reach an endpoint which may be down: test_connection,        *)
(* clear_table and insert_data of SupabaseManager, test_connection of      *)
(* TallyHTTPClient, each called on its own                                  *)

\* what a request to Supabase gives: an exception of requests, or an answer
\* with a status
SupabaseAnswers ==
    {[raises |-> ex, status_code |-> NoResponse] : ex \in {"ConnectionError", "Timeout"}}
        \cup {[raises |-> "none", status_code |-> st] : st \in {200, 201, 204, 401, 404, 500}}

\* SupabaseManager.test_connection, given what requests.get gives
test_connection(answer) == answer.raises = "none" /\ answer.status_code = 200

\* SupabaseManager.clear_table, given what requests.delete gives
clear_table(answer) == answer.raises = "none" /\ clear_table_result(answer.status_code)

\* insert_data after the POST of the batch at i, given what requests.post gives
insert_batch(answer, data, i) ==
    IF answer.raises # "none" THEN "return_false"
    ELSE after_batch(insert_batch_ok(answer.status_code), has_next_batch(data, i))

\* TallyHTTPClient.send_request: the root, or the exception it lets through
send_request(resp) ==
    IF resp.raises # "none" THEN Raise(resp.raises)
    ELSE LET parsed == fromstring(clean_xml_response(resp.text))
         IN  IF parsed.ok THEN Ok(parsed.value) ELSE Raise("ParseError")

\* a connection test that answers True whatever the request gave
tally_test_connection_always(resp) == TRUE

\* TallyHTTPClient.test_connection, given what the request to Tally gives
tally_test_connection(resp) == send_request(resp).ok

\* a request sent and what it gave
Sent(method, url, batch, answer) ==
    [method |-> method, url |-> url, batch |-> batch, answer |-> answer]

ConnTables == {"tally_companies", "tally_ledgers"}

\* SupabaseManager.test_connection() is called and ends
TestConnection ==
    /\ step = "idle"
    /\ \E answer \in SupabaseAnswers :
          /\ sent' = <<Sent("GET", "/rest/v1/", <<>>, answer)>>
          /\ outcome' = Ok(test_connection(answer))
    /\ invoked' = [fn |-> "SupabaseManager.test_connection", args |-> <<>>]
    /\ step' = "returned"
    /\ UNCHANGED <<syncVars, xmlVars, moreVars>>

\* SupabaseManager.clear_table(table_name) is called and ends
ClearTableAlone ==
    /\ step = "idle"
    /\ \E table_name \in ConnTables, answer \in SupabaseAnswers :
          /\ invoked' = [fn |-> "SupabaseManager.clear_table", args |-> <<table_name>>]
          /\ sent' = <<Sent("DELETE", table_name, <<>>, answer)>>
          /\ outcome' = Ok(clear_table(answer))
    /\ step' = "returned"
    /\ UNCHANGED <<syncVars, xmlVars, moreVars>>

\* SupabaseManager.insert_data(table_name, data) is called; without data it
\* returns True at once
InsertDataAlone ==
    /\ step = "idle"
    /\ \E table_name \in ConnTables, n \in DataSizes :
          /\ invoked' = [fn |-> "SupabaseManager.insert_data",
                         args |-> <<table_name, Records(n)>>]
          /\ IF no_data(Records(n))
             THEN step' = "returned" /\ outcome' = Ok(TRUE)
             ELSE step' = "post" /\ UNCHANGED outcome
    /\ UNCHANGED sent
    /\ UNCHANGED <<syncVars, xmlVars, moreVars>>

\* insert_data: the POST of the next batch, and the return after a batch
\* that was rejected, a request that raised, or the last batch
InsertBatchAlone ==
    /\ step = "post"
    /\ \E answer \in SupabaseAnswers :
          LET data == invoked.args[2]
              i == Len(sent) * batch_size
              next == insert_batch(answer, data, i)
          IN  /\ sent' = Append(sent, Sent("POST", invoked.args[1], batch_at(data, i), answer))
              /\ IF next = "next_batch"
                 THEN UNCHANGED <<step, outcome>>
                 ELSE step' = "returned" /\ outcome' = Ok(next = "return_true")
    /\ UNCHANGED invoked
    /\ UNCHANGED <<syncVars, xmlVars, moreVars>>

\* TallyHTTPClient.test_connection() is called and ends
TallyTestConnection ==
    /\ step = "idle"
    /\ \E resp \in Responses("get_companies") :
          /\ sent' = <<Sent("POST", "tally", <<>>, resp)>>
          /\ outcome' = Ok(tally_test_connection(resp))
    /\ invoked' = [fn |-> "TallyHTTPClient.test_connection", args |-> <<>>]
    /\ step' = "returned"
    /\ UNCHANGED <<syncVars, xmlVars, moreVars>>

InitConn == SyncIdle /\ XmlIdle /\ LibIdle /\ MoreIdle

NextConn ==
    \/ TestConnection
    \/ ClearTableAlone
    \/ InsertDataAlone
    \/ InsertBatchAlone
    \/ TallyTestConnection

SpecConn == InitConn /\ [][NextConn]_vars

\* request k of the call raised instead of answering
RaisedAt(k) == sent[k].answer.raises # "none"

(* C19: test_connection, clear_table and insert_data of SupabaseManager and
   test_connection of TallyHTTPClient never end with an exception; when a
   request raises, the call returns False, that request is the last one the
   call sends, and no request of the call is sent twice. *)
C19_UnreachableGivesFalse ==
    /\ outcome.ok
    /\ \A k \in 1..Len(sent) :
          RaisedAt(k) => k = Len(sent) /\ step = "returned" /\ outcome.value = FALSE
    /\ \A j, k \in 1..Len(sent) :
          j < k => sent[j].batch # sent[k].batch

\* insert_data of 101 records: the first batch is stored, the POST of the
\* second raises, the call returns False after these two requests
C19_Witness ==
    /\ step = "returned"
    /\ invoked.fn = "SupabaseManager.insert_data"
    /\ Len(sent) = 2
    /\ ~RaisedAt(1) /\ RaisedAt(2)
    /\ outcome = Ok(FALSE)

\* the connection test of TallyHTTPClient returned False for a Tally that
\* does not answer
C19_TallyWitness ==
    /\ step = "returned"
    /\ invoked.fn = "TallyHTTPClient.test_connection"
    /\ sent[1].answer.raises = "ConnectionError"
    /\ outcome = Ok(FALSE)

-----------------------------------------------------------------------------
(* get_voucher_entries_simple of simple_voucher_entries.py: three reports   *)
(* asked for in turn                                                        *)

\* the reports, in the order of the code
reports == <<"DayBook", "CashBook", "BankBook">>

\* what Tally answers to the request of a report: the answers to a request
\* for voucher entries with at most one fragment, and reports without entries
ReportResponses ==
    {[raises |-> ex, text |-> <<>>] : ex \in RequestExceptions}
        \cup {[raises |-> "none", text |-> doc[1] \o Flatten(fill) \o doc[2]] :
                 doc \in documents("get_voucher_entries"), fill \in Fillings(1)}
        \cup {[raises |-> "none", text |-> Chars("<ENVELOPE/>")],
              [raises |-> "none",
               text |-> Chars("<ENVELOPE><VOUCHER><VOUCHERNUMBER>1</VOUCHERNUMBER></VOUCHER></ENVELOPE>")]}

\* send_tally_request: the root, or the exception logged and raised again
send_tally_request(resp) ==
    IF resp.raises # "none" THEN Raise(resp.raises)
    ELSE LET parsed == fromstring(clean_xml_response(resp.text))
         IN  IF parsed.ok THEN Ok(parsed.value) ELSE Raise("ParseError")

\* the try block of a report up to its test: the entries built from the
\* answer, or the exception of the request
report_entries(resp) ==
    LET made == send_tally_request(resp)
    IN  IF made.ok THEN Ok(extract("get_voucher_entries", made.value)) ELSE made

\* a report that answered is taken, with or without entries
yields_any(entries) == entries.ok

\* if len(entries) > 0, where the try block got that far
yields_entries(entries) == entries.ok /\ entries.value # <<>>

\* get_voucher_entries_simple() is called
GetVoucherEntriesSimple ==
    /\ step = "idle"
    /\ invoked' = [fn |-> "get_voucher_entries_simple", args |-> <<>>]
    /\ step' = reports[1]
    /\ UNCHANGED <<sent, outcome>>
    /\ UNCHANGED <<syncVars, xmlVars, moreVars>>

\* what the try block of a report can get: the entries of an answer, or the
\* exception of the request
ReportEntries == {report_entries(resp) : resp \in ReportResponses}

\* one try block: the report is asked for; its entries are returned, or the
\* code goes on to the next report, or to return [] after the last
RequestReport ==
    /\ step \in Range(reports)
    /\ \E entries \in ReportEntries :
          /\ sent' = Append(sent, [report |-> step, entries |-> entries])
          /\ IF yields_entries(entries)
             THEN step' = "returned" /\ outcome' = Ok(entries.value)
             ELSE IF Len(sent) + 1 < Len(reports)
             THEN step' = reports[Len(sent) + 2] /\ UNCHANGED outcome
             ELSE step' = "returned" /\ outcome' = Ok(<<>>)
    /\ UNCHANGED invoked
    /\ UNCHANGED <<syncVars, xmlVars, moreVars>>

InitReports == SyncIdle /\ XmlIdle /\ LibIdle /\ MoreIdle

NextReports == GetVoucherEntriesSimple \/ RequestReport

SpecReports == InitReports /\ [][NextReports]_vars

\* request k gave at least one entry
GaveEntries(k) == sent[k].entries.ok /\ sent[k].entries.value # <<>>

(* C20: get_voucher_entries_simple asks for DayBook, CashBook, BankBook in
   that order; a report is asked for only after every earlier one raised or
   gave no entry, and then it is asked for; the call returns the entries of
   the first report that gave any, and [] when none did. *)
C20_ReportsInOrderUntilEntries ==
    /\ Len(sent) <= Len(reports)
    /\ \A k \in 1..Len(sent) : sent[k].report = reports[k]
    /\ \A k \in 1..Len(sent) : k < Len(sent) => ~GaveEntries(k)
    /\ (step \in Range(reports)) =>
          /\ step = reports[Len(sent) + 1]
          /\ \A k \in 1..Len(sent) : ~GaveEntries(k)
    /\ (step = "returned") =>
          /\ sent # <<>>
          /\ GaveEntries(Len(sent)) \/ Len(sent) = Len(reports)
          /\ outcome = Ok(IF GaveEntries(Len(sent)) THEN sent[Len(sent)].entries.value
                          ELSE <<>>)

\* DayBook raised, CashBook gave no entry, BankBook gave the entries returned
C20_Witness ==
    /\ step = "returned"
    /\ Len(sent) = 3
    /\ ~sent[1].entries.ok
    /\ sent[2].entries = Ok(<<>>)
    /\ GaveEntries(3)
    /\ outcome.value = sent[3].entries.value

-----------------------------------------------------------------------------
(* TallyConnection and TallyMetadataExtractor                               *)
(* (src/tally_metadata_extractor.py)                                        *)

\* TallyMetadataExtractor.__init__: self.cache_duration = 300  # 5 minutes
cache_duration == 300

\* the number of cache periods the clock of the model runs through
MaxPeriods == 1

\* the number of operations on the connection in one behaviour
MaxOps == 3

\* the number of requests the get_* calls of one behaviour send to Tally
MaxRequests == 2

\* the times at which the model reads time.time(): the seconds just before, at
\* and just after each multiple of cache_duration
Times ==
    {t \in {k * cache_duration + j : k \in 0..MaxPeriods, j \in {-1, 0, 1}} :
        t >= Epoch}

\* the times at which _update_cache can read time.time() in a call that read it
\* at time t in _is_cache_valid: the same second or the next time of the model
StoreTimes(t) ==
    {t} \cup {u \in Times : u > t /\ \A v \in Times : v > t => u <= v}

\* what _read_response and send_request can give: None, the empty text, or a
\* text; a text is described by whether ET.fromstring accepts it and by the
\* elements it holds at the path the parsing function searches
NoReply == [kind |-> "None", well_formed |-> FALSE, records |-> <<>>]
EmptyReply == [kind |-> "empty", well_formed |-> FALSE, records |-> <<>>]
TextReply(ok, recs) == [kind |-> "text", well_formed |-> ok, records |-> recs]

\* _read_response: '' when nothing was read or reading raised, else the text
ReadReplies ==
    {EmptyReply, TextReply(FALSE, <<>>), TextReply(TRUE, <<>>), TextReply(TRUE, <<1>>)}

\* socket.connect: succeeds or raises
ConnectOutcomes == {"ok", "raises"}

\* socket.send: succeeds or raises
SendOutcomes == {"ok", "raises"}

\* what the network does during one send_request
Wire == [connect : ConnectOutcomes, send : SendOutcomes, reply : ReadReplies]

\* TallyConnection.connect: a new socket object replaces self.socket
connect(o) ==
    IF o = "ok"
    THEN [socket |-> "open", connected |-> TRUE, value |-> TRUE]
    ELSE [socket |-> "unconnected", connected |-> FALSE, value |-> FALSE]

\* TallyConnection.disconnect
disconnect(sock, conn) ==
    IF sock # "None"
    THEN [socket |-> "closed", connected |-> FALSE]
    ELSE [socket |-> sock, connected |-> conn]

\* an entry of conn_log: the operation, self.socket and self.connected before
\* it, what the connect it made returned ("none": it made none), whether it
\* called socket.send and the flag at that moment, whether socket.send raised,
\* the value returned and self.connected after it
ConnOp(op, sock, before, connects, wrote, at_write, send_raised, value, after) ==
    [op |-> op, socket_before |-> sock, connected_before |-> before,
     connect |-> connects, wrote |-> wrote, connected_at_write |-> at_write,
     raised |-> send_raised, value |-> value, connected_after |-> after]

\* send_request with an except block that leaves self.connected alone
send_request_keeps_flag(sock, conn, w) ==
    LET c == IF ~conn THEN connect(w.connect)
             ELSE [socket |-> sock, connected |-> conn, value |-> TRUE]
    IN  IF ~c.value
        THEN [socket |-> c.socket, connected |-> c.connected, value |-> NoReply,
              entry |-> ConnOp("send_request", sock, conn, "False", FALSE, FALSE,
                               FALSE, NoReply, c.connected)]
        ELSE IF w.send = "raises"
        THEN [socket |-> c.socket, connected |-> c.connected, value |-> NoReply,
              entry |-> ConnOp("send_request", sock, conn,
                               IF conn THEN "none" ELSE "True", TRUE, c.connected,
                               TRUE, NoReply, c.connected)]
        ELSE [socket |-> c.socket, connected |-> c.connected, value |-> w.reply,
              entry |-> ConnOp("send_request", sock, conn,
                               IF conn THEN "none" ELSE "True", TRUE, c.connected,
                               FALSE, w.reply, c.connected)]

\* TallyConnection.send_request: the new socket and flag, the value returned
\* and the entry of conn_log
connection_send_request(sock, conn, w) ==
    LET c == IF ~conn THEN connect(w.connect)
             ELSE [socket |-> sock, connected |-> conn, value |-> TRUE]
    IN  IF ~c.value
        THEN [socket |-> c.socket, connected |-> c.connected, value |-> NoReply,
              entry |-> ConnOp("send_request", sock, conn, "False", FALSE, FALSE,
                               FALSE, NoReply, c.connected)]
        ELSE IF w.send = "raises"
        THEN [socket |-> c.socket, connected |-> FALSE, value |-> NoReply,
              entry |-> ConnOp("send_request", sock, conn,
                               IF conn THEN "none" ELSE "True", TRUE, c.connected,
                               TRUE, NoReply, FALSE)]
        ELSE [socket |-> c.socket, connected |-> c.connected, value |-> w.reply,
              entry |-> ConnOp("send_request", sock, conn,
                               IF conn THEN "none" ELSE "True", TRUE, c.connected,
                               FALSE, w.reply, c.connected)]

\* x or 'all'
or_all(x) == IF x = "" THEN "all" ELSE x

\* the get_* calls of the model; '' stands for an argument that is None or ''
\* (the code treats the two alike)
MetadataCalls ==
    { [fn |-> "get_companies"],
      [fn |-> "get_divisions", company_name |-> ""],
      [fn |-> "get_divisions", company_name |-> "ABC"],
      [fn |-> "get_ledgers", company_name |-> ""],
      [fn |-> "get_vouchers", company_name |-> "", from_date |-> "", to_date |-> ""],
      [fn |-> "get_voucher_entries", voucher_number |-> "", company_name |-> ""] }

\* cache_key of each get_* function
cache_key(call) ==
    CASE call.fn = "get_companies" -> "companies"
      [] call.fn = "get_divisions" -> "divisions_" \o or_all(call.company_name)
      [] call.fn = "get_ledgers" -> "ledgers_" \o or_all(call.company_name)
      [] call.fn = "get_vouchers" ->
            "vouchers_" \o or_all(call.company_name) \o "_" \o or_all(call.from_date)
                        \o "_" \o or_all(call.to_date)
      [] call.fn = "get_voucher_entries" ->
            "voucher_entries_" \o or_all(call.voucher_number) \o "_"
                               \o or_all(call.company_name)

\* _is_cache_valid with the strict comparison replaced by <=
is_cache_valid_inclusive(key, timestamps, now) ==
    key \in DOMAIN timestamps /\ now - timestamps[key] <= cache_duration

\* _is_cache_valid
is_cache_valid(key, timestamps, now) ==
    IF key \notin DOMAIN timestamps THEN FALSE
    ELSE now - timestamps[key] < cache_duration

\* d[key] = value
dict_set(d, key, value) ==
    [k \in DOMAIN d \cup {key} |-> IF k = key THEN value ELSE d[k]]

\* _parse_*_response: the elements found, [] when ET.fromstring raises
parse_response(resp) == IF resp.well_formed THEN resp.records ELSE <<>>

\* if response:
has_response(resp) == resp.kind = "text"

\* what a get_* call did
MetadataCall(call, at, hit, resp, stored, value) ==
    [fn |-> call.fn, key |-> cache_key(call), at |-> at, hit |-> hit,
     response |-> resp, stored |-> stored, returned |-> value,
     earlier |-> {s[2] : s \in {u \in stores : u[1] = cache_key(call)}}]

\* get_companies, get_divisions, get_ledgers, get_vouchers, get_voucher_entries
GetMetadata(call) ==
    /\ \E key \in {cache_key(call)} :
          IF is_cache_valid(key, cache_timestamp, clock)
          THEN /\ last_call' = MetadataCall(call, clock, TRUE, NoReply, FALSE, cache[key])
               /\ UNCHANGED <<socket, connected, cache, cache_timestamp, clock,
                              conn_log, stores>>
          ELSE /\ Len(conn_log) < MaxRequests
               /\ \E w \in Wire, later \in StoreTimes(clock) :
                    \E r \in {connection_send_request(socket, connected, w)} :
                        /\ clock' = later
                        /\ socket' = r.socket
                        /\ connected' = r.connected
                        /\ conn_log' = Append(conn_log, r.entry)
                        /\ IF has_response(r.value)
                           THEN /\ cache' = dict_set(cache, key, parse_response(r.value))
                                /\ cache_timestamp' = dict_set(cache_timestamp, key, later)
                                /\ stores' = stores \cup {<<key, later>>}
                                /\ last_call' =
                                      MetadataCall(call, clock, FALSE, r.value, TRUE,
                                                   parse_response(r.value))
                           ELSE /\ UNCHANGED <<cache, cache_timestamp, stores>>
                                /\ last_call' =
                                      MetadataCall(call, clock, FALSE, r.value, FALSE, <<>>)
    /\ UNCHANGED <<syncVars, xmlVars, libVars, pageVars, runVars>>

\* time passes between two calls
Tick ==
    /\ \E later \in Times : later > clock /\ clock' = later
    /\ UNCHANGED <<socket, connected, cache, cache_timestamp, conn_log, last_call,
                   stores>>
    /\ UNCHANGED <<syncVars, xmlVars, libVars, pageVars, runVars>>

\* TallyConnection.connect, called directly
Connect ==
    /\ Len(conn_log) < MaxOps
    /\ \E o \in ConnectOutcomes :
          LET c == connect(o)
          IN  /\ socket' = c.socket
              /\ connected' = c.connected
              /\ conn_log' = Append(conn_log,
                    ConnOp("connect", socket, connected,
                           IF c.value THEN "True" ELSE "False", FALSE, FALSE, FALSE,
                           NoReply, c.connected))
    /\ UNCHANGED <<cache, cache_timestamp, clock, last_call, stores>>
    /\ UNCHANGED <<syncVars, xmlVars, libVars, pageVars, runVars>>

\* TallyConnection.disconnect, and TallyMetadataExtractor.close
Disconnect ==
    /\ Len(conn_log) < MaxOps
    /\ LET d == disconnect(socket, connected)
       IN  /\ socket' = d.socket
           /\ connected' = d.connected
           /\ conn_log' = Append(conn_log,
                 ConnOp("disconnect", socket, connected, "none", FALSE, FALSE,
                        FALSE, NoReply, d.connected))
    /\ UNCHANGED <<cache, cache_timestamp, clock, last_call, stores>>
    /\ UNCHANGED <<syncVars, xmlVars, libVars, pageVars, runVars>>

\* TallyConnection.send_request, called directly
ConnectionSendRequest ==
    /\ Len(conn_log) < MaxOps
    /\ \E w \in Wire :
          LET r == connection_send_request(socket, connected, w)
          IN  /\ socket' = r.socket
              /\ connected' = r.connected
              /\ conn_log' = Append(conn_log, r.entry)
    /\ UNCHANGED <<cache, cache_timestamp, clock, last_call, stores>>
    /\ UNCHANGED <<syncVars, xmlVars, libVars, pageVars, runVars>>

InitConnection == SyncIdle /\ XmlIdle /\ LibIdle /\ MoreIdle

NextConnection ==
    \/ Connect
    \/ Disconnect
    \/ ConnectionSendRequest

\* a TallyConnection used directly
SpecConnection == InitConnection /\ [][NextConnection]_vars

InitExtractor == SyncIdle /\ XmlIdle /\ LibIdle /\ MoreIdle

NextExtractor ==
    \/ \E call \in MetadataCalls : GetMetadata(call)
    \/ Tick

\* a TallyMetadataExtractor and the connection it owns
SpecExtractor == InitExtractor /\ [][NextExtractor]_vars

\* the most recent get_* call was answered from the cache
ServedFromCache == last_call.fn # "none" /\ last_call.hit

\* the most recent get_* call asked the connection
AskedTally == last_call.fn # "none" /\ ~last_call.hit

\* an entry for the key of the most recent call was stored, by an earlier call,
\* less than cache_duration seconds before it
StoredRecently ==
    \E t \in last_call.earlier : last_call.at - t < cache_duration

\* a step that is one get_* call
MetadataStep == \E call \in MetadataCalls : GetMetadata(call)

(***************************************************************************)
(* C21: a get_* call is answered from the cache, without an operation on   *)
(* the connection to Tally, exactly when an entry for the same key was      *)
(* stored less than 300 seconds before it; the answer is then the entry     *)
(* stored last for that key, and it is less than 300 seconds old. Every     *)
(* other call makes one send_request on the connection.                     *)
(***************************************************************************)
C21_CacheWithinTTL ==
    [][MetadataStep =>
        /\ last_call'.hit <=> StoredRecently'
        /\ last_call'.hit =>
              /\ conn_log' = conn_log
              /\ cache' = cache /\ cache_timestamp' = cache_timestamp
              /\ last_call'.returned = cache[last_call'.key]
              /\ last_call'.at - cache_timestamp[last_call'.key] < cache_duration
              /\ \A t \in last_call'.earlier : t <= cache_timestamp[last_call'.key]
        /\ ~last_call'.hit =>
              /\ Len(conn_log') = Len(conn_log) + 1
              /\ Last(conn_log').op = "send_request"]_vars

\* a call one second before the end of the TTL is served from the cache
C21_Witness ==
    /\ ServedFromCache
    /\ \E t \in last_call.earlier : last_call.at - t = cache_duration - 1

\* a call at the end of the TTL of a stored entry sends a request
C21_ExpiredWitness ==
    /\ AskedTally
    /\ \E t \in last_call.earlier :
          /\ last_call.at - t = cache_duration
          /\ \A u \in last_call.earlier : u <= t

\* the operations of conn_log that are send_request calls
Requests == {k \in 1..Len(conn_log) : conn_log[k].op = "send_request"}

\* operation k starts from the flag operation k - 1 left, and the flag now is
\* the one the last operation left
FlagFollowsLog ==
    /\ \A k \in 2..Len(conn_log) :
          conn_log[k].connected_before = conn_log[k - 1].connected_after
    /\ conn_log # <<>> =>
          /\ conn_log[1].connected_before = FALSE
          /\ Last(conn_log).connected_after = connected

(***************************************************************************)
(* C25: send_request calls socket.send only while connected is True; when  *)
(* connected is False it calls connect first, and when that connect fails   *)
(* it returns None without calling socket.send; after socket.send raised,   *)
(* connected is False, the call returned None, and a send_request that      *)
(* follows connects before it sends; after disconnect with a socket object  *)
(* present connected is False.                                              *)
(***************************************************************************)
C25_WritesOnlyWhileConnected ==
    /\ FlagFollowsLog
    /\ \A k \in Requests :
          /\ conn_log[k].wrote => conn_log[k].connected_at_write
          /\ conn_log[k].connected_before <=> conn_log[k].connect = "none"
          /\ conn_log[k].connect = "False" =>
                /\ ~conn_log[k].wrote
                /\ conn_log[k].value = NoReply
          /\ conn_log[k].raised =>
                /\ ~conn_log[k].connected_after
                /\ conn_log[k].value = NoReply
          /\ (k > 1 /\ conn_log[k - 1].op = "send_request" /\ conn_log[k - 1].raised) =>
                /\ conn_log[k].connect # "none"
                /\ conn_log[k].wrote => conn_log[k].connect = "True"
    /\ \A k \in 1..Len(conn_log) :
          (conn_log[k].op = "disconnect" /\ conn_log[k].socket_before # "None") =>
              ~conn_log[k].connected_after

\* socket.send raised on a connected socket and the next send_request connected
\* again and sent
C25_Witness ==
    \E k \in Requests :
        /\ k > 1
        /\ conn_log[k - 1].op = "send_request"
        /\ conn_log[k - 1].connected_before
        /\ conn_log[k - 1].raised
        /\ conn_log[k].connect = "True"
        /\ conn_log[k].wrote

\* a send_request whose connect failed
C25_ConnectFailedWitness ==
    \E k \in Requests : conn_log[k].connect = "False"

\* a disconnect of an open socket
C25_DisconnectWitness ==
    \E k \in 1..Len(conn_log) :
        /\ conn_log[k].op = "disconnect"
        /\ conn_log[k].socket_before = "open"
        /\ conn_log[k].connected_before

\* the response of the most recent get_* call could not be used: there was none,
\* or ET.fromstring rejects it
Unusable == ~has_response(last_call'.response) \/ ~last_call'.response.well_formed

(***************************************************************************)
(* C26: a get_* call that got no response, or a response that cannot be    *)
(* parsed, stores nothing in the cache.                                     *)
(***************************************************************************)
C26_OnlyParsedResultsCached ==
    [][(MetadataStep /\ ~last_call'.hit /\ Unusable) =>
          (cache' = cache /\ cache_timestamp' = cache_timestamp)]_vars

-----------------------------------------------------------------------------
(* The element text of a response under clean_xml_response *)

\* position k of s lies in a tag: between a '<' and the '>' that follows it
in_tag(s, k) ==
    \E j \in 1..k : s[j] = "<" /\ \A m \in j..(k - 1) : s[m] # ">"

\* the characters of s outside its tags, in order
text_content(s) ==
    Flatten([k \in 1..Len(s) |-> IF in_tag(s, k) THEN <<>> ELSE <<s[k]>>])

(***************************************************************************)
(* C27: after control characters are removed and '&' is escaped, the       *)
(* remaining statements of clean_xml_response leave the text between the   *)
(* tags of a well-formed response as it is: letters followed by ':' in an   *)
(* element's text are still there in the cleaned text.                      *)
(***************************************************************************)
C27_ElementTextKept ==
    (xml_steps # <<>> /\ fromstring(response.text).ok) =>
        text_content(xml_steps[6]) = text_content(xml_steps[3])

-----------------------------------------------------------------------------
(* main of src/extract_voucher_entries_by_voucher.py *)

\* the largest number of vouchers get_vouchers gives
MaxVouchers == 2

\* the numbers of entries get_voucher_entries_for_voucher finds for a voucher
\* (entries with numeric amounts, fewer than batch_size of them)
EntryCounts == {0, 1, 2}

\* what get_vouchers gives, as the number of entries of each voucher
VoucherLists == UNION {[1..n -> EntryCounts] : n \in 0..MaxVouchers}

\* SupabaseManager.insert_data for a list of one batch, given what requests.post
\* gives: every exception is caught inside it, so the call returns True or False
insert_data(answer, data) == Ok(insert_batch(answer, data, 0) = "return_true")

\* main: the statements after 'result = supabase_manager.insert_data(...)' in
\* the try block run unless the call raised; result is not looked at
counts_voucher(res) == res.ok

\* the locals of main after i vouchers
MainLocals(i, total_entries, successful_vouchers) ==
    [i |-> i, total_entries |-> total_entries,
     successful_vouchers |-> successful_vouchers]

\* main is called: get_vouchers, and the return without vouchers
Main ==
    /\ step = "idle"
    /\ \E voucher_list \in VoucherLists :
          /\ invoked' = [fn |-> "extract_voucher_entries_by_voucher.main",
                         args |-> <<voucher_list>>]
          /\ step' = IF voucher_list = <<>> THEN "returned" ELSE "voucher"
    /\ outcome' = Ok(MainLocals(0, 0, 0))
    /\ UNCHANGED sent
    /\ UNCHANGED <<syncVars, xmlVars, moreVars>>

\* one round of the loop over the vouchers, and the summary after the last
MainVoucher ==
    /\ step = "voucher"
    /\ \E i \in {outcome.value.i + 1}, answer \in SupabaseAnswers :
          \E supabase_entries \in {Records(invoked.args[1][i])} :
              /\ IF supabase_entries # <<>>
                 THEN /\ sent' = Append(sent, Sent("POST", "tally_voucher_entries",
                                                   supabase_entries, answer))
                      /\ IF counts_voucher(insert_data(answer, supabase_entries))
                         THEN outcome' =
                                Ok(MainLocals(i,
                                     outcome.value.total_entries + Len(supabase_entries),
                                     outcome.value.successful_vouchers + 1))
                         ELSE outcome' =
                                Ok(MainLocals(i, outcome.value.total_entries,
                                              outcome.value.successful_vouchers))
                 ELSE /\ UNCHANGED sent
                      /\ outcome' =
                            Ok(MainLocals(i, outcome.value.total_entries,
                                          outcome.value.successful_vouchers))
              /\ step' = IF i = Len(invoked.args[1]) THEN "returned" ELSE "voucher"
    /\ UNCHANGED invoked
    /\ UNCHANGED <<syncVars, xmlVars, moreVars>>

InitMain == SyncIdle /\ XmlIdle /\ LibIdle /\ MoreIdle

NextMain ==
    \/ Main
    \/ MainVoucher

SpecMain == InitMain /\ [][NextMain]_vars

\* the insert_data calls of main that returned True
StoredCalls ==
    {k \in 1..Len(sent) : insert_data(sent[k].answer, sent[k].batch).value}

RECURSIVE EntriesOf(_)
\* the number of entries the calls of the set S sent
EntriesOf(S) ==
    IF S = {} THEN 0
    ELSE LET k == CHOOSE k \in S : TRUE
         IN  Len(sent[k].batch) + EntriesOf(S \ {k})

(***************************************************************************)
(* C28: when main ends, total_entries is the number of entries whose       *)
(* insert_data call returned True and successful_vouchers is the number of  *)
(* those calls.                                                             *)
(***************************************************************************)
C28_TotalsCountStoredEntries ==
    step = "returned" =>
        /\ outcome.value.total_entries = EntriesOf(StoredCalls)
        /\ outcome.value.successful_vouchers = Cardinality(StoredCalls)

-----------------------------------------------------------------------------
(* SupabaseConfigPage (src/supabase_config_page.py): the three buttons,   *)
(* the worker threads they start and the slots the threads' signals call. *)
(* Every handler runs on the GUI thread, one at a time; a disabled button  *)
(* gives no click.                                                         *)

\* the largest number of threads of one class running at the same time
MaxThreads == 2

\* what a TallyAnalysisThread emits: an error, or a result whose structure is
\* empty or holds data (the plan of preview_sync_plan is never empty)
AnalysisResults == {"error", "empty", "data"}

\* bool(self.structure_data)
has_structure(structure) == structure = "data"

set_enabled(button, enabled) == [buttons EXCEPT ![button] = enabled]

started(thread) == [running EXCEPT ![thread] = @ + 1]

finished(thread) == [running EXCEPT ![thread] = @ - 1]

\* test_connection: the click on Test Connection
ClickTestConnection ==
    /\ buttons.test_connection_button
    /\ \E filled \in BOOLEAN :
          IF ~filled
          THEN UNCHANGED <<buttons, running>>
          ELSE /\ running.SupabaseConnectionThread < MaxThreads
               /\ buttons' = set_enabled("test_connection_button", FALSE)
               /\ running' = started("SupabaseConnectionThread")
    /\ UNCHANGED structure_data
    /\ UNCHANGED <<syncVars, xmlVars, libVars, extractorVars, runVars>>

\* on_connection_result(connected, message)
OnConnectionResult ==
    /\ running.SupabaseConnectionThread > 0
    /\ running' = finished("SupabaseConnectionThread")
    /\ \E is_connected \in BOOLEAN :
          buttons' = [buttons EXCEPT !.test_connection_button = TRUE,
                                     !.analyze_button = is_connected]
    /\ UNCHANGED structure_data
    /\ UNCHANGED <<syncVars, xmlVars, libVars, extractorVars, runVars>>

\* analyze_tally_data: the click on Analyze
ClickAnalyze ==
    /\ buttons.analyze_button
    /\ running.TallyAnalysisThread < MaxThreads
    /\ buttons' = set_enabled("analyze_button", FALSE)
    /\ running' = started("TallyAnalysisThread")
    /\ UNCHANGED structure_data
    /\ UNCHANGED <<syncVars, xmlVars, libVars, extractorVars, runVars>>

\* on_analysis_complete(result), with the show_sync_plan it calls
OnAnalysisComplete ==
    /\ running.TallyAnalysisThread > 0
    /\ running' = finished("TallyAnalysisThread")
    /\ \E analysis \in AnalysisResults :
          IF analysis = "error"
          THEN /\ buttons' = set_enabled("analyze_button", TRUE)
               /\ UNCHANGED structure_data
          ELSE /\ structure_data' = analysis
               /\ buttons' = [buttons EXCEPT !.analyze_button = TRUE,
                                             !.sync_button = TRUE]
    /\ UNCHANGED <<syncVars, xmlVars, libVars, extractorVars, runVars>>

\* start_sync: the click on Start Sync, and the answer to the question it asks
ClickStartSync ==
    /\ buttons.sync_button
    /\ \E confirmed \in BOOLEAN :
          IF ~has_structure(structure_data) \/ ~confirmed
          THEN UNCHANGED <<buttons, running>>
          ELSE /\ running.DataSyncThread < MaxThreads
               /\ buttons' = set_enabled("sync_button", FALSE)
               /\ running' = started("DataSyncThread")
    /\ UNCHANGED structure_data
    /\ UNCHANGED <<syncVars, xmlVars, libVars, extractorVars, runVars>>

\* on_sync_complete(success, message)
OnSyncComplete ==
    /\ running.DataSyncThread > 0
    /\ running' = finished("DataSyncThread")
    /\ buttons' = set_enabled("sync_button", TRUE)
    /\ UNCHANGED structure_data
    /\ UNCHANGED <<syncVars, xmlVars, libVars, extractorVars, runVars>>

InitPage == SyncIdle /\ XmlIdle /\ LibIdle /\ MoreIdle

NextPage ==
    \/ ClickTestConnection
    \/ OnConnectionResult
    \/ ClickAnalyze
    \/ OnAnalysisComplete
    \/ ClickStartSync
    \/ OnSyncComplete

SpecPage == InitPage /\ [][NextPage]_vars

(***************************************************************************)
(* C24: at most one DataSyncThread is running, and while one is running    *)
(* (from start_sync until on_sync_complete) the sync button is disabled.    *)
(***************************************************************************)
C24_OneSyncThread ==
    /\ running.DataSyncThread <= 1
    /\ running.DataSyncThread > 0 => ~buttons.sync_button

-----------------------------------------------------------------------------
(* sync_tally_data called again with the same records *)

\* the number of runs of one behaviour
MaxRuns == 2

\* a run that ended: what it returned, the tables it left, and whether
\* Supabase accepted every request of it
EndedRun ==
    [result |-> result, tables |-> tables, fair |-> fair,
     log |-> LogFile(log_file, sync_log), sync_results |-> sync_results]

\* sync_tally_data(tally_data) is called again after it returned
RunAgain ==
    /\ mode = "manager"
    /\ pc = "done"
    /\ Len(runs) + 1 < MaxRuns
    /\ runs' = Append(runs, EndedRun)
    /\ fair' \in BOOLEAN
    /\ pc' = "loop"
    /\ idx' = 1
    /\ success' = TRUE
    /\ offset' = 0
    /\ existing_tables' = {}
    /\ result' = "none"
    /\ trace' = <<>>
    /\ UNCHANGED <<tables, lastStatus, mode, tally_data, mapIdx, sync_results,
                   sync_success, sync_log, extracted, log_file>>
    /\ UNCHANGED <<xmlVars, libVars, extractorVars, pageVars>>

\* a direct call of sync_tally_data with records for one table, in a run that
\* Supabase may or may not accept throughout
InitRerun ==
    /\ XmlIdle
    /\ LibIdle
    /\ ExtractorIdle
    /\ PageIdle
    /\ runs = <<>>
    /\ fair \in BOOLEAN
    /\ log_file = "absent"
    /\ SyncStart
    /\ mode = "manager"
    /\ \E k \in 1..Len(tally_data) :
          \A j \in 1..Len(tally_data) :
              j # k => /\ tally_data[j].data = <<>>
                       /\ tables[tally_data[j].table] = Absent

NextRerun ==
    \/ SyncLoop
    \/ GetExistingTables
    \/ AlterTable
    \/ CreateTable
    \/ ClearTable
    \/ InsertData
    \/ RunAgain

SpecRerun == InitRerun /\ [][NextRerun]_vars

\* the positions of tally_data that hold records
WithRecords == {k \in 1..Len(tally_data) : tally_data[k].data # <<>>}

\* a second run that Supabase accepted throughout has ended
FairRerunEnded ==
    /\ mode = "manager"
    /\ pc = "done"
    /\ Len(runs) = 1
    /\ fair

\* every table with records holds exactly those records
HoldsTheRecords ==
    \A k \in WithRecords : tables[tally_data[k].table].rows = tally_data[k].data

(***************************************************************************)
(* C22: after a run that failed, a second run with the same records, in    *)
(* which Supabase accepts every request, returns True and leaves exactly    *)
(* the records in every destination table that existed (with columns that   *)
(* cover the record fields, with or without rows) when the second run       *)
(* began.                                                                   *)
(***************************************************************************)
C22_RerunRecovers ==
    (/\ FairRerunEnded
     /\ runs[1].result = FALSE
     /\ WithRecords # {}
     /\ \A k \in WithRecords :
           /\ runs[1].tables[tally_data[k].table].exists
           /\ runs[1].tables[tally_data[k].table].covers)
        => (result = TRUE /\ HoldsTheRecords)

(***************************************************************************)
(* C23: when a run in which Supabase accepted every request returned True  *)
(* (the destination table existed, and where the schema check reads a row,  *)
(* with a row whose columns cover the record fields), a second such run     *)
(* with the same records returns True and leaves the tables as the first    *)
(* run left them: each holds the records once.                              *)
(***************************************************************************)
C23_SecondRunLeavesSameRows ==
    (FairRerunEnded /\ runs[1].fair /\ runs[1].result = TRUE)
        => /\ result = TRUE
           /\ tables = runs[1].tables
           /\ HoldsTheRecords

\* two accepted runs of more than one batch for a table of the probe list,
\* whose schema check read a covering row
C23_Witness ==
    /\ FairRerunEnded
    /\ runs[1].fair
    /\ runs[1].result = TRUE
    /\ \E k \in WithRecords :
          /\ tally_data[k].table = "tally_companies"
          /\ Len(tally_data[k].data) > batch_size
          /\ tables[tally_data[k].table].rows = tally_data[k].data

-----------------------------------------------------------------------------
(* sync_data_to_supabase called again, and get_sync_status *)

\* sync_data_to_supabase(tally_structure, mapping) is called again after it
\* returned
SyncAgain ==
    /\ mode = "sync"
    /\ pc = "done"
    /\ Len(runs) + 1 < MaxRuns
    /\ runs' = Append(runs, EndedRun)
    /\ pc' = "sync_loop"
    /\ mapIdx' = 1
    /\ sync_results' = [ty \in Range(mapping) |-> NoResult]
    /\ sync_success' = TRUE
    /\ extracted' = [ty \in Range(mapping) |-> -1]
    /\ tally_data' = <<>>
    /\ idx' = 1
    /\ success' = TRUE
    /\ offset' = 0
    /\ existing_tables' = {}
    /\ result' = "none"
    /\ trace' = <<>>
    /\ invoked' = NoCall
    /\ step' = "idle"
    /\ outcome' = NoOutcome
    /\ UNCHANGED <<tables, lastStatus, mode, sync_log, log_file, fair, sent>>
    /\ UNCHANGED <<xmlVars, extractorVars, pageVars>>

\* get_sync_status() is called after a run
GetSyncStatus ==
    /\ mode = "sync"
    /\ pc = "done"
    /\ step = "idle"
    /\ invoked' = [fn |-> "TallySupabaseSync.get_sync_status", args |-> <<>>]
    /\ outcome' = Ok(get_sync_status(LogFile(log_file, sync_log)))
    /\ step' = "returned"
    /\ UNCHANGED sent
    /\ UNCHANGED <<syncVars, xmlVars, moreVars>>

\* sync_data_to_supabase for the entity types of mapping, their tables absent
\* or present with a covering row, Supabase accepting every request, no
\* sync_log.json yet
InitLog ==
    /\ XmlIdle
    /\ LibIdle
    /\ ExtractorIdle
    /\ PageIdle
    /\ runs = <<>>
    /\ fair = TRUE
    /\ log_file = "absent"
    /\ SyncStart
    /\ mode = "sync"
    /\ \A t \in ModeTables(mode) :
          tables[t] \in {Absent, [exists |-> TRUE, covers |-> TRUE, rows |-> OldRows]}

NextLog ==
    \/ SyncLoop
    \/ GetExistingTables
    \/ AlterTable
    \/ CreateTable
    \/ ClearTable
    \/ InsertData
    \/ SyncDataLoop
    \/ SyncDataReturn
    \/ SyncAgain
    \/ GetSyncStatus

SpecLog == InitLog /\ [][NextLog]_vars

\* the file the run that just ended found
LogBefore == IF runs = <<>> THEN LogFile("absent", <<>>) ELSE Last(runs).log

(***************************************************************************)
(* C29: when a call of sync_data_to_supabase has returned, sync_log.json   *)
(* holds the entries it held before the call, unchanged, followed by one    *)
(* entry with a result for every entity type of the mapping, and            *)
(* get_sync_status returns that entry.                                     *)
(***************************************************************************)
C29_LogAppendOnly ==
    (mode = "sync" /\ pc = "done") =>
        /\ log_file = "json"
        /\ sync_log = Append(LogBefore.entries, sync_results)
        /\ \A ty \in Range(mapping) : sync_results[ty].status # "none"
        /\ get_sync_status(LogFile(log_file, sync_log)).results = sync_results
        /\ step = "returned" => outcome.value.results = sync_results

=============================================================================
